---- MODULE Spec2Model ----
(***************************************************************************)
(* A model of the RTMPy core: the chunk decoder and encoder                *)
(* (rtmpy/rtmp/codec/__init__.py), the client handshake (rtmpy/client.py)  *)
(* and the publish protocol and the event dispatch of streams              *)
(* (rtmpy/protocol/stream.py, rtmpy/rtmp/event.py).                        *)
(*                                                                         *)
(* Bytes are integers in 0..255.  The byte buffer, the header codec, the   *)
(* channel and the scheduler live in modules of the repository that are    *)
(* not part of the sources at hand (rtmpy.util, rtmpy.rtmp.codec.header,   *)
(* rtmpy.rtmp); they are modelled from the specification's sections 3,     *)
(* 4.A, 4.B, 4.C and 4.E.                                                  *)
(***************************************************************************)
EXTENDS Integers, Sequences, FiniteSets, TLC

VARIABLES
    dec,        \* the decoder under test (a record, see NewDecoder)
    decA,       \* an independent decoder fed the first of two streams
    decB,       \* an independent decoder fed the second of two streams
    wire,       \* the chunk stream the peer sends to dec
    wireA,      \* the first part of wire (a valid chunk stream of its own)
    wireB,      \* the second part of wire (a valid chunk stream of its own)
    sent,       \* how many bytes of wire the transport has delivered to dec
    sentA,      \* how many bytes of wireA have been delivered to decA
    sentB,      \* how many bytes of wireB have been delivered to decB
    expect,     \* the messages wire carries, in the order they complete
    enc,        \* the encoder (a record, see NewEncoder)
    ctx,        \* Encoder.channelContext: channel id -> ChannelContext
    sched,      \* the scheduler: the active channels in round-robin order
    echan,      \* the encoding channels: channel id -> channel
    prod,       \* the producer of each encoding channel
    consumer,   \* what Encoder.consumer has been written, one entry a write
    lastEnc,    \* history: what the latest encoder tick did
    cli,        \* the client protocol (a record, see NewClient)
    log,        \* what the client wrote and dispatched, in order
    peer,       \* the peer of the client: what it sends
    psent,      \* how many of the peer's bytes the transport has delivered
    ndeliv,     \* how many deliveries the transport has made
    pub,        \* the publishing stream of each connection: connection -> Stream
    nstream,    \* the named stream "live" of the application
    fx,         \* history: what the latest stream handler did, in order
    rcv,        \* a publishing stream and the events it has received
    snd,        \* the events the stream was asked to write, and the packets
    sstream,    \* a named stream that has subscribers
    note,       \* history: the latest call made on sstream and what it did
    emsg,       \* an event to encode and decode, or a message received
    eout,       \* what the event codec and the stream made of emsg
    fsz         \* history: the changes of manager.frameSize

decVars == <<dec, decA, decB, wire, wireA, wireB, sent, sentA, sentB, expect>>

encVars == <<enc, ctx, sched, echan, prod, consumer, lastEnc>>

hsVars == <<cli, log, peer, psent, ndeliv>>

pubVars == <<pub, nstream, fx>>

evtVars == <<rcv, snd>>

subVars == <<sstream, note>>

codVars == <<emsg, eout>>

fsVars == <<fsz>>

vars == <<decVars, encVars, hsVars, pubVars, evtVars, subVars, codVars,
          fsVars>>

nonDecVars == <<encVars, hsVars, pubVars, evtVars,
    subVars, codVars, fsVars>>

nonEncVars == <<decVars, hsVars, pubVars, evtVars,
    subVars, codVars, fsVars>>

nonHsVars == <<decVars, encVars, pubVars, evtVars,
    subVars, codVars, fsVars>>

nonPubVars == <<decVars, encVars, hsVars, evtVars,
    subVars, codVars, fsVars>>

nonEvtVars == <<decVars, encVars, hsVars, pubVars,
    subVars, codVars, fsVars>>

nonSubVars == <<decVars, encVars, hsVars, pubVars,
    evtVars, codVars, fsVars>>

nonCodVars == <<decVars, encVars, hsVars, pubVars,
    evtVars, subVars, fsVars>>

nonFsVars == <<decVars, encVars, hsVars, pubVars,
    evtVars, subVars, codVars>>

----------------------------------------------------------------------------
(* Bounds of the model.                                                    *)

MaxBody == 3
MaxFrameSize == 2
MaxFragment == 3
MaxMessages == 2
MaxDeliveries == 4
MaxRequests == 2
MaxCloses == 1
MaxLosses == 1
MaxTimestamp == 1
MaxEvents == 2
MaxTrailing == 1
MaxFsMessages == 1

----------------------------------------------------------------------------
(* Helpers.                                                                *)

Min(a, b) == IF a < b THEN a ELSE b

Min3(a, b, c) == Min(a, Min(b, c))

Drop(s, n) == SubSeq(s, n + 1, Len(s))

Take(s, n) == SubSeq(s, 1, n)

----------------------------------------------------------------------------
(* Header codec (rtmpy.rtmp.codec.header; specification 4.B).              *)

NoHeader == [channelId |-> -1]

\* An absolute header.  streamId is kept as its four little-endian bytes
\* (<<>> when a relative header does not carry it).
Header(cid, ts, len, dt, sid) ==
    [channelId |-> cid, relative |-> FALSE, timestamp |-> ts,
     bodyLength |-> len, datatype |-> dt, streamId |-> sid]

\* Big-endian unsigned integer of n bytes starting after position pos.
RECURSIVE ReadBE(_, _, _)
ReadBE(buf, pos, n) ==
    IF n = 0 THEN 0
    ELSE ReadBE(buf, pos, n - 1) * 256 + buf[pos + n]

RECURSIVE WriteBE(_, _)
WriteBE(v, n) ==
    IF n = 0 THEN <<>>
    ELSE Append(WriteBE(v \div 256, n - 1), v % 256)

RECURSIVE WriteLE(_, _)
WriteLE(v, n) ==
    IF n = 0 THEN <<>>
    ELSE <<v % 256>> \o WriteLE(v \div 256, n - 1)

\* encodeHeader for channel ids below 64 and timestamps below 0xFFFFFF.
EncodeHeader(fmt, h) ==
    <<fmt * 64 + h.channelId>>
    \o (IF fmt <= 2 THEN WriteBE(h.timestamp, 3) ELSE <<>>)
    \o (IF fmt <= 1 THEN WriteBE(h.bodyLength, 3) \o <<h.datatype>> ELSE <<>>)
    \o (IF fmt = 0 THEN h.streamId ELSE <<>>)

\* decodeHeader(stream): reads the leading byte, the extended channel id,
\* the fields the format carries and the extended timestamp.  A short read
\* raises EOFError and leaves the cursor after the last field that was read
\* completely; the result then is [ok |-> FALSE, pos |-> that cursor].
DecodeHeader(buf, pos) ==
    LET rem(p) == Len(buf) - p
    IN
    IF rem(pos) < 1 THEN [ok |-> FALSE, pos |-> pos]
    ELSE
    LET lead == buf[pos + 1]
        fmt == lead \div 64
        low == lead % 64
        idLen == IF low = 0 THEN 1 ELSE IF low = 1 THEN 2 ELSE 0
        p1 == pos + 1
    IN
    IF rem(p1) < idLen THEN [ok |-> FALSE, pos |-> p1]
    ELSE
    LET cid == IF low = 0 THEN 64 + buf[p1 + 1]
               ELSE IF low = 1 THEN 64 + buf[p1 + 1] + 256 * buf[p1 + 2]
               ELSE low
        p2 == p1 + idLen
    IN
    IF fmt = 3 THEN
        [ok |-> TRUE, pos |-> p2,
         h |-> [channelId |-> cid, relative |-> TRUE, timestamp |-> -1,
                bodyLength |-> -1, datatype |-> -1, streamId |-> <<>>]]
    ELSE IF rem(p2) < 3 THEN [ok |-> FALSE, pos |-> p2]
    ELSE
    LET ts == ReadBE(buf, p2, 3)
        p3 == p2 + 3
    IN
    IF fmt <= 1 /\ rem(p3) < 3 THEN [ok |-> FALSE, pos |-> p3]
    ELSE IF fmt <= 1 /\ rem(p3) < 4 THEN [ok |-> FALSE, pos |-> p3 + 3]
    ELSE
    LET len == IF fmt <= 1 THEN ReadBE(buf, p3, 3) ELSE -1
        dt  == IF fmt <= 1 THEN buf[p3 + 4] ELSE -1
        p4  == IF fmt <= 1 THEN p3 + 4 ELSE p3
    IN
    IF fmt = 0 /\ rem(p4) < 4 THEN [ok |-> FALSE, pos |-> p4]
    ELSE
    LET sid == IF fmt = 0 THEN SubSeq(buf, p4 + 1, p4 + 4) ELSE <<>>
        p5  == IF fmt = 0 THEN p4 + 4 ELSE p4
    IN
    IF ts = 16777215 /\ rem(p5) < 4 THEN [ok |-> FALSE, pos |-> p5]
    ELSE
        [ok |-> TRUE,
         pos |-> IF ts = 16777215 THEN p5 + 4 ELSE p5,
         h |-> [channelId |-> cid, relative |-> fmt # 0,
                timestamp |-> IF ts = 16777215 THEN ReadBE(buf, p5, 4) ELSE ts,
                bodyLength |-> len, datatype |-> dt, streamId |-> sid]]

\* mergeHeaders(old, new): the absolute header a relative header stands
\* for.  A timestamp in a relative header is a delta.
MergeHeaders(old, new) ==
    [channelId |-> old.channelId, relative |-> FALSE,
     timestamp |-> IF new.timestamp = -1 THEN old.timestamp
                   ELSE old.timestamp + new.timestamp,
     bodyLength |-> IF new.bodyLength = -1 THEN old.bodyLength
                    ELSE new.bodyLength,
     datatype |-> IF new.datatype = -1 THEN old.datatype ELSE new.datatype,
     streamId |-> IF new.streamId = <<>> THEN old.streamId
                  ELSE new.streamId]

----------------------------------------------------------------------------
(* Channel (rtmpy.rtmp; specification 3 and 4.C).                          *)

\* A channel just created by the channel table.
NewChannel == [header |-> NoHeader, body |-> <<>>, frames |-> 0]

\* channel.bodyRemaining: bodyRemaining + len(body) = header.bodyLength.
BodyRemaining(ch) ==
    IF ch.header = NoHeader THEN 0 ELSE ch.header.bodyLength - Len(ch.body)

\* channel.setHeader(h): a relative header is applied to the last header.
\* A relative header on a channel that has none is an error.
SetHeaderFails(ch, h) == h.relative /\ ch.header = NoHeader

ChannelSetHeader(ch, h) ==
    [ch EXCEPT !.header = IF h.relative THEN MergeHeaders(ch.header, h) ELSE h]

\* The number of complete chunks among the first n bytes of a body of
\* length len: every frameSize bytes, and the rest of the body if smaller.
FramesIn(n, len, frameSize) ==
    n \div frameSize + (IF n = len /\ n % frameSize # 0 THEN 1 ELSE 0)

\* channel.write(data): appends to the body, counts the chunks completed
\* and, when the body is complete, hands it to the consumer and resets the
\* body for the next message.  The result is the channel and the completed
\* messages (none or one).
ChannelWrite(ch, data, frameSize) ==
    LET before == Len(ch.body)
        all == ch.body \o data
        len == ch.header.bodyLength
        gained == FramesIn(Len(all), len, frameSize)
                  - FramesIn(before, len, frameSize)
        complete == Len(all) = len
    IN [ch |-> [ch EXCEPT !.body = IF complete THEN <<>> ELSE all,
                          !.frames = ch.frames + gained],
        done |-> IF complete THEN <<[header |-> ch.header, body |-> all]>>
                 ELSE <<>>]

----------------------------------------------------------------------------
(* Decoder (rtmpy/rtmp/codec/__init__.py, class Decoder).                  *)
(*                                                                         *)
(* The byte buffer is modelled from the specification's sections 3 and     *)
(* 4.A: an append-only tail and a read cursor; bytes appended at the tail  *)
(* are in front of the cursor that seek(0, 2) left at the old tail, and    *)
(* consume() drops the bytes before the cursor and rebases it to 0.  A     *)
(* tick therefore always finds the unconsumed bytes at positions 1..Len.   *)

\* Decoder.__init__ with a manager whose frame size is fs.  The fields
\* drains and tick are history: what the latest tick did.
NewDecoder(fs) ==
    [buffer |-> <<>>,           \* BaseCodec.buffer
     running |-> FALSE,         \* BaseCodec.job.running
     currentChannel |-> 0,      \* Decoder.currentChannel, 0 for None
     channels |-> <<>>,         \* manager's table: channel id -> channel
     out |-> <<>>,              \* the completed messages, in order
     frameSize |-> fs,          \* manager.frameSize
     failed |-> FALSE,          \* the job ended with an exception
     drains |-> <<>>,           \* the reads readFrame made in the latest tick
     tick |-> "none"]           \* how the latest tick ended

\* manager.getChannel(channelId): returns or creates the entry.
GetChannel(chs, cid) ==
    IF cid \in DOMAIN chs THEN chs
    ELSE [c \in DOMAIN chs \cup {cid} |->
            IF c = cid THEN NewChannel ELSE chs[c]]

\* BaseCodec.pause
Pause(d, how) == [d EXCEPT !.running = FALSE, !.tick = how]

\* An exception leaves the tick: the job stops and its deferred fails.
Fail(d) == [d EXCEPT !.running = FALSE, !.failed = TRUE, !.tick = "error"]

\* BaseCodec.start
StartJob(d) == IF d.failed THEN d ELSE [d EXCEPT !.running = TRUE]

\* A readHeader that does not seek back to where the header started.
ReadHeaderKeepsCursor(buf, pos) == DecodeHeader(buf, pos)

\* Decoder.readHeader at cursor pos: a short read restores the cursor.
ReadHeader(buf, pos) ==
    LET r == DecodeHeader(buf, pos)
    IN IF r.ok THEN r ELSE [ok |-> FALSE, pos |-> pos]

\* A getBytesAvailableForChannel that takes the frame size for the largest
\* there is, whatever the manager says.
GetBytesAvailableAnyFrame(d, pos, ch) ==
    Min3(Len(d.buffer) - pos, BodyRemaining(ch), MaxFrameSize)

\* Decoder.getBytesAvailableForChannel, the cursor being at pos.
GetBytesAvailableForChannel(d, pos, ch) ==
    Min3(Len(d.buffer) - pos, BodyRemaining(ch), d.frameSize)

\* A readFrame that keeps the channel pinned after a complete frame.
ReadFrameKeepsPin(d, pos, pinned) ==
    LET cid == d.currentChannel
        ch == d.channels[cid]
        available == Min3(Len(d.buffer) - pos, BodyRemaining(ch), d.frameSize)
        w == ChannelWrite(ch, SubSeq(d.buffer, pos + 1, pos + available),
                          d.frameSize)
    IN IF available = 0 THEN [d |-> d, pos |-> pos]
       ELSE IF available < 0 THEN [d |-> Fail(d), pos |-> pos]
       ELSE [d |-> [d EXCEPT !.channels[cid] = w.ch,
                             !.out = @ \o w.done,
                             !.currentChannel =
                                 IF BodyRemaining(w.ch) = 0 THEN 0 ELSE cid],
             pos |-> pos + available]

\* Decoder.readFrame, the cursor being at pos; the result is the decoder
\* and the cursor.  pinned tells whether the channel was pinned by an
\* earlier tick.  A header that leaves less to receive than the channel
\* already holds makes the read fail.
ReadFrame(d, pos, pinned) ==
    LET cid == d.currentChannel
        ch == d.channels[cid]
        available == GetBytesAvailableForChannel(d, pos, ch)
        frames == ch.frames
        w == ChannelWrite(ch, SubSeq(d.buffer, pos + 1, pos + available),
                          d.frameSize)
        unpin == w.ch.frames # frames \/ BodyRemaining(w.ch) = 0
        drain == [channel |-> cid, n |-> available, pinned |-> pinned,
                  remaining |-> Len(d.buffer) - pos,
                  bodyRemaining |-> BodyRemaining(ch),
                  received |-> Len(ch.body),
                  data |-> SubSeq(d.buffer, pos + 1, pos + available)]
    IN IF available = 0 THEN [d |-> d, pos |-> pos]
       ELSE IF available < 0 THEN [d |-> Fail(d), pos |-> pos]
       ELSE [d |-> [d EXCEPT !.channels[cid] = w.ch,
                             !.out = @ \o w.done,
                             !.currentChannel = IF unpin THEN 0 ELSE cid,
                             !.drains = Append(@, drain)],
             pos |-> pos + available]

\* Decoder._decode, the cursor being at 0.
DecodeInner(d0) ==
    LET r1 == IF d0.currentChannel # 0 THEN ReadFrame(d0, 0, TRUE)
              ELSE [d |-> d0, pos |-> 0]
        d1 == r1.d
        p1 == r1.pos
    IN
    IF d1.failed THEN [d |-> d1, pos |-> 0]
    ELSE IF Len(d1.buffer) - p1 < 1 THEN [d |-> Pause(d1, "empty"), pos |-> p1]
    ELSE
    LET hr == ReadHeader(d1.buffer, p1)
    IN
    IF ~hr.ok THEN [d |-> Pause(d1, "shortHeader"), pos |-> hr.pos]
    ELSE
    LET cid == hr.h.channelId
        chs == GetChannel(d1.channels, cid)
    IN
    IF SetHeaderFails(chs[cid], hr.h)
    THEN [d |-> Fail([d1 EXCEPT !.channels = chs, !.currentChannel = cid]),
          pos |-> 0]
    ELSE ReadFrame([d1 EXCEPT
                      !.channels = [chs EXCEPT
                                      ![cid] = ChannelSetHeader(@, hr.h)],
                      !.currentChannel = cid,
                      !.tick = "frame"],
                   hr.pos, FALSE)

\* Decoder.decode: one tick of the job.  consume() drops the bytes before
\* the cursor.
Decode(d) ==
    IF Len(d.buffer) < 1 THEN Pause([d EXCEPT !.drains = <<>>], "empty")
    ELSE LET r == DecodeInner([d EXCEPT !.drains = <<>>, !.tick = "frame"])
         IN IF r.d.failed THEN r.d ELSE [r.d EXCEPT !.buffer = Drop(@, r.pos)]

\* Decoder.dataReceived: adds data to the end of the buffer.
DataReceived(d, data) == [d EXCEPT !.buffer = @ \o data]

----------------------------------------------------------------------------
(* Encoder (rtmpy/rtmp/codec/__init__.py, classes ChannelContext and       *)
(* Encoder).  The encoding channels are the channels of specification 4.C: *)
(* the producer sets a header and writes the body, and the channel hands   *)
(* the completed body to its consumer, the ChannelContext.  The scheduler  *)
(* is the round-robin scheduler of specification 4.E.                      *)

EncChannelIds == {3, 4}

\* Encoder.__init__ with a manager whose frame size is fs.
NewEncoder(fs) ==
    [running |-> FALSE,         \* BaseCodec.job.running
     currentContext |-> 0,      \* Encoder.currentContext, 0 for None
     frameSize |-> fs,          \* manager.frameSize
     failed |-> FALSE]          \* the job ended with an exception

\* ChannelContext.__init__
NewContext == [buffer |-> <<>>, active |-> FALSE, header |-> NoHeader]

NoTick == [channel |-> 0, result |-> "none", wanted |-> 0, had |-> 0]

\* The encoder side of a state in which only the decoder runs.
EncIdle ==
    /\ enc = NewEncoder(1)
    /\ ctx = [c \in EncChannelIds |-> NewContext]
    /\ sched = <<>>
    /\ echan = [c \in EncChannelIds |-> NewChannel]
    /\ prod = [c \in EncChannelIds |-> [started |-> 0, open |-> FALSE]]
    /\ consumer = <<>>
    /\ lastEnc = NoTick

InSeq(x, q) == \E i \in 1..Len(q) : q[i] = x

Remove(q, x) == SelectSeq(q, LAMBDA y : y # x)

\* scheduler.activateChannel
Activate(q, c) == IF InSeq(c, q) THEN q ELSE Append(q, c)

\* scheduler.deactivateChannel
Deactivate(q, c) == Remove(q, c)

\* scheduler.getNextChannel takes the active channels in turn: the channel
\* returned goes to the back of the round.
Rotate(q) == IF q = <<>> THEN q ELSE Append(Tail(q), Head(q))

\* ChannelContext.write: the result is the context and the scheduler.
ContextWrite(cx, q, c, data) ==
    [ctx |-> [cx EXCEPT !.buffer = @ \o data, !.active = TRUE],
     sched |-> IF cx.active THEN q ELSE Activate(q, c)]

\* A getData that deactivates the context only when its buffer is empty.
GetDataKeepsActive(cx, length) ==
    LET ok == Len(cx.buffer) >= length
        deactivate == Len(cx.buffer) = 0
    IN [ok |-> ok,
        data |-> IF ok THEN Take(cx.buffer, length) ELSE <<>>,
        deactivate |-> deactivate,
        ctx |-> IF deactivate THEN [cx EXCEPT !.active = FALSE]
                ELSE IF ok THEN [cx EXCEPT !.buffer = Drop(@, length)]
                ELSE cx]

\* ChannelContext.getData(length): data is <<>> for None.
GetData(cx, length) ==
    LET ok == Len(cx.buffer) >= length
        deactivate == Len(cx.buffer) = 0 \/ ~ok
    IN [ok |-> ok,
        data |-> IF ok THEN Take(cx.buffer, length) ELSE <<>>,
        deactivate |-> deactivate,
        ctx |-> IF deactivate THEN [cx EXCEPT !.active = FALSE]
                ELSE [cx EXCEPT !.buffer = Drop(@, length)]]

\* header.diffHeaders(old, new): the smallest format that carries the
\* fields that changed; the timestamp of a relative header is a delta.
DiffHeaders(old, new) ==
    IF old.streamId # new.streamId THEN new
    ELSE IF old.bodyLength # new.bodyLength \/ old.datatype # new.datatype
    THEN [channelId |-> new.channelId, relative |-> TRUE,
          timestamp |-> new.timestamp - old.timestamp,
          bodyLength |-> new.bodyLength, datatype |-> new.datatype,
          streamId |-> <<>>]
    ELSE IF old.timestamp # new.timestamp
    THEN [channelId |-> new.channelId, relative |-> TRUE,
          timestamp |-> new.timestamp - old.timestamp,
          bodyLength |-> -1, datatype |-> -1, streamId |-> <<>>]
    ELSE [channelId |-> new.channelId, relative |-> TRUE, timestamp |-> -1,
          bodyLength |-> -1, datatype |-> -1, streamId |-> <<>>]

\* The format a header is written in.
FormatOf(h) ==
    IF ~h.relative THEN 0
    ELSE IF h.bodyLength # -1 THEN 1
    ELSE IF h.timestamp # -1 THEN 2
    ELSE 3

\* A getRelativeHeader that diffs against nothing: the channel's header as
\* it stands.
GetRelativeHeaderAbsolute(cx, ch) == ch.header

\* ChannelContext.getRelativeHeader
GetRelativeHeader(cx, ch) ==
    IF cx.header = NoHeader THEN ch.header
    ELSE DiffHeaders(cx.header, ch.header)

\* Encoder.getMinimumFrameSize, before its check that the result is not
\* under 1 (WriteFrame makes that check).
GetMinimumFrameSize(ch, fs) == Min(BodyRemaining(ch), fs)

\* Encoder.writeFrame on the context cx of channel ch: the result says
\* whether RuntimeError was raised, what the frame is (none or one), the
\* context afterwards and whether the scheduler was told to deactivate.
WriteFrame(cx, ch, fs) ==
    LET length == GetMinimumFrameSize(ch, fs)
        g == GetData(cx, length)
        relativeHeader == GetRelativeHeader(cx, ch)
    IN IF length < 1
       THEN [error |-> TRUE, frame |-> <<>>, ctx |-> cx,
             deactivate |-> FALSE, wanted |-> length]
       ELSE IF ~g.ok
       THEN [error |-> FALSE, frame |-> <<>>, ctx |-> g.ctx,
             deactivate |-> g.deactivate, wanted |-> length]
       ELSE [error |-> FALSE,
             frame |-> <<[channel |-> ch.header.channelId,
                          header |-> relativeHeader,
                          data |-> g.data,
                          bytes |-> EncodeHeader(FormatOf(relativeHeader),
                                                 relativeHeader) \o g.data]>>,
             ctx |-> [g.ctx EXCEPT !.header = ch.header],
             deactivate |-> g.deactivate, wanted |-> length]
----------------------------------------------------------------------------
(* Client handshake (rtmpy/client.py, class RTMPClientProtocol).  The base *)
(* protocol rtmp.RTMPBaseProtocol, its constants and its event handlers    *)
(* are those of specification 4.G.                                         *)

\* rtmp.HANDSHAKE_LENGTH and rtmp.HEADER_BYTE
HANDSHAKE_LENGTH == 1536
HEADER_BYTE == 3

\* A handshake payload: v in every byte but the last.
Block(v, last) ==
    [i \in 1..HANDSHAKE_LENGTH |-> IF i = HANDSHAKE_LENGTH THEN last ELSE v]

\* rtmp.generate_handshake: the payloads it may return.
Handshakes == {Block(1, 1), Block(5, 4)}

\* The protocol before connectionMade.
NewClient ==
    [state |-> "NEW", buffer |-> <<>>, my_handshake |-> <<>>,
     received_handshake |-> <<>>,
     closed |-> FALSE,      \* transport.loseConnection was called
     raised |-> FALSE,      \* dataReceived ended with an exception
     branch |-> "none"]     \* history: what the latest dataReceived ran

Written(data) == [op |-> "write", bytes |-> data, event |-> ""]

Dispatched(ev) == [op |-> "dispatch", bytes |-> <<>>, event |-> ev]

\* The peers: the leading byte, what is sent as the echo, and whether
\* stream bytes follow the handshake.
Peers ==
    [lead : {HEADER_BYTE, 6},
     echo : {"exact", "last", "first"},
     more : BOOLEAN]

\* The server's own payload.
PeerHandshake == Block(2, 9)

\* What the peer sends in answer to the client's payload my.
PeerWire(p, my) ==
    <<p.lead>> \o PeerHandshake
    \o (CASE p.echo = "exact" -> my
          [] p.echo = "last" ->
               [my EXCEPT ![HANDSHAKE_LENGTH] = (@ + 1) % 256]
          [] OTHER -> [my EXCEPT ![1] = (@ + 1) % 256])
    \o (IF p.more THEN <<HEADER_BYTE, 7>> ELSE <<>>)

\* The client side of a state in which only a codec runs.
HsIdle ==
    /\ cli = NewClient
    /\ log = <<>>
    /\ peer = [kind |-> [lead |-> HEADER_BYTE, echo |-> "exact",
                         more |-> FALSE],
               wire |-> <<>>]
    /\ psent = 0
    /\ ndeliv = 0

\* A decodeHandshake that does not compare the echo with my_handshake.
DecodeHandshakeAnyEcho(c) ==
    LET buffer == c.buffer
        received == SubSeq(buffer, 2, HANDSHAKE_LENGTH + 1)
    IN IF Len(buffer) < 1 THEN [cli |-> c, log |-> <<>>]
       ELSE IF buffer[1] # HEADER_BYTE
       THEN [cli |-> [c EXCEPT !.state = "CLOSED", !.closed = TRUE],
             log |-> <<Dispatched("HANDSHAKE_FAILURE")>>]
       ELSE IF Len(buffer) < HANDSHAKE_LENGTH * 2 + 1
       THEN [cli |-> c, log |-> <<>>]
       ELSE [cli |-> [c EXCEPT !.received_handshake = received,
                               !.buffer = Drop(buffer,
                                               HANDSHAKE_LENGTH * 2 + 1),
                               !.state = "STREAM"],
             log |-> <<Written(received), Dispatched("HANDSHAKE_SUCCESS")>>]

\* A decodeHandshake that does not return after a handshake mismatch.
DecodeHandshakeNoReturn(c) ==
    LET buffer == c.buffer
        received == SubSeq(buffer, 2, HANDSHAKE_LENGTH + 1)
        echo == SubSeq(buffer, HANDSHAKE_LENGTH + 2, HANDSHAKE_LENGTH * 2 + 1)
    IN IF Len(buffer) < 1 THEN [cli |-> c, log |-> <<>>]
       ELSE IF buffer[1] # HEADER_BYTE
       THEN [cli |-> [c EXCEPT !.state = "CLOSED", !.closed = TRUE],
             log |-> <<Dispatched("HANDSHAKE_FAILURE")>>]
       ELSE IF Len(buffer) < HANDSHAKE_LENGTH * 2 + 1
       THEN [cli |-> c, log |-> <<>>]
       ELSE [cli |-> [c EXCEPT !.received_handshake = received,
                               !.buffer = Drop(buffer,
                                               HANDSHAKE_LENGTH * 2 + 1),
                               !.closed = echo # c.my_handshake,
                               !.state = "STREAM"],
             log |-> (IF echo # c.my_handshake
                      THEN <<Dispatched("HANDSHAKE_FAILURE")>> ELSE <<>>)
                     \o <<Written(received),
                          Dispatched("HANDSHAKE_SUCCESS")>>]

\* RTMPClientProtocol.decodeHandshake on the buffer read from its start:
\* the result is the protocol afterwards and what was written and
\* dispatched.  Dispatching HANDSHAKE_FAILURE closes the connection and
\* dispatching HANDSHAKE_SUCCESS moves to STREAM (specification 4.G);
\* _consumeBuffer drops the bytes read.
DecodeHandshake(c) ==
    LET buffer == c.buffer
        received == SubSeq(buffer, 2, HANDSHAKE_LENGTH + 1)
        echo == SubSeq(buffer, HANDSHAKE_LENGTH + 2, HANDSHAKE_LENGTH * 2 + 1)
    IN IF Len(buffer) < 1 THEN [cli |-> c, log |-> <<>>]
       ELSE IF buffer[1] # HEADER_BYTE
       THEN [cli |-> [c EXCEPT !.state = "CLOSED", !.closed = TRUE],
             log |-> <<Dispatched("HANDSHAKE_FAILURE")>>]
       ELSE IF Len(buffer) < HANDSHAKE_LENGTH * 2 + 1
       THEN [cli |-> c, log |-> <<>>]
       ELSE IF echo # c.my_handshake
       THEN [cli |-> [c EXCEPT !.received_handshake = received,
                               !.state = "CLOSED", !.closed = TRUE],
             log |-> <<Dispatched("HANDSHAKE_FAILURE")>>]
       ELSE [cli |-> [c EXCEPT !.received_handshake = received,
                               !.buffer = Drop(buffer,
                                               HANDSHAKE_LENGTH * 2 + 1),
                               !.state = "STREAM"],
             log |-> <<Written(received), Dispatched("HANDSHAKE_SUCCESS")>>]

\* RTMPClientProtocol.dataReceived.  In STREAM the call
\* rtmp.RTMPBaseProtocol.dataReceived(data) passes no instance and raises
\* TypeError; in any other state the connection is closed.
ClientDataReceived(c, data) ==
    LET c1 == [c EXCEPT !.buffer = @ \o data]
        r == DecodeHandshake(c1)
    IN IF c.state = "HANDSHAKE"
       THEN [cli |-> [r.cli EXCEPT !.branch = "handshake"], log |-> r.log]
       ELSE IF c.state = "STREAM"
       THEN [cli |-> [c1 EXCEPT !.raised = TRUE, !.closed = TRUE,
                                !.branch = "stream"],
             log |-> <<>>]
       ELSE [cli |-> [c1 EXCEPT !.closed = TRUE, !.branch = "close"],
             log |-> <<>>]

----------------------------------------------------------------------------
(* Publishing (rtmpy/protocol/stream.py, classes Stream and                *)
(* SubscriberStream).  Every connection has one Stream and all of them     *)
(* publish to the same named stream of the application.  The application's *)
(* onPublish and the protocol's writePacket are those of specification     *)
(* 4.I: either may answer at once or later.                                *)

Conns == {1, 2}

\* ExtendedBaseStream.__init__, Stream.__init__
NewStream ==
    [pc |-> "idle",         \* where the publish call of this stream waits
     published |-> FALSE,   \* Stream.published
     timestamp |-> 0,       \* BaseStream.timestamp
     bound |-> FALSE,       \* Stream.stream and Stream.application are set
     named |-> FALSE,       \* Stream.streamName is set
     raised |-> FALSE,      \* a handler of the stream ended with an exception
     requests |-> 0,        \* publish calls made so far
     closes |-> 0,          \* closeStream calls made so far
     losses |-> 0,          \* connectionLost calls made so far
     out |-> <<>>]          \* what was sent to the client, in order

\* SubscriberStream.__init__; 0 stands for None.
NewNamedStream == [publisher |-> 0]

PubIdle ==
    /\ pub = [c \in Conns |-> NewStream]
    /\ nstream = NewNamedStream
    /\ fx = <<>>

\* The calls made so far on all the streams.
Requests == pub[1].requests + pub[2].requests

Closes == pub[1].closes + pub[2].closes

Losses == pub[1].losses + pub[2].losses

\* BaseStream.sendStatus
SendStatus(s, code) == [s EXCEPT !.out = Append(@, code)]

\* SubscriberStream.setPublisher
SetPublisher(ns, c) == [ns EXCEPT !.publisher = c]

\* A doStatus that sets the publisher before it sends the status, and
\* fires the deferred of the publish call at once.
DoStatusEarly(s, ns, c) ==
    [stream |-> [SendStatus(s, "NetStream.Publish.Start")
                    EXCEPT !.published = TRUE, !.pc = "idle"],
     named |-> SetPublisher(ns, c),
     fx |-> <<"setPublisher", "streamPublished", "published",
              "NetStream.Publish.Start">>]

\* doStatus in Stream.publish: the result is the stream, the named stream
\* and what was done, in order.  The publish call completes when the
\* status has been written.
DoStatus(s, ns, c) ==
    [stream |-> [SendStatus(s, "NetStream.Publish.Start")
                    EXCEPT !.published = TRUE, !.pc = "status"],
     named |-> SetPublisher(ns, c),
     fx |-> <<"NetStream.Publish.Start", "setPublisher", "streamPublished",
              "published">>]

\* A checkPublishRequest that writes the stream-begin event before it
\* looks at the answer of onPublish.
CheckPublishRequestBeginsFirst(s, ns, c, res, written) ==
    LET s1 == [s EXCEPT !.out = Append(@, "StreamBegin")]
        r == DoStatus(s1, ns, c)
    IN IF ~res
       THEN [stream |-> [SendStatus(s1, "NetStream.Publish.BadName")
                            EXCEPT !.pc = "status"],
             named |-> ns,
             fx |-> <<"rejected", "StreamBegin", "NetStream.Publish.BadName">>]
       ELSE IF written
       THEN [r EXCEPT !.fx = <<"authorized", "StreamBegin">> \o @]
       ELSE [stream |-> [s1 EXCEPT !.pc = "begin"], named |-> ns,
             fx |-> <<"authorized", "StreamBegin">>]

\* checkPublishRequest in Stream.publish with the answer res of onPublish
\* (rejected: res is False); written tells whether the stream-begin write
\* has completed at once.
CheckPublishRequest(s, ns, c, res, written) ==
    IF ~res
    THEN [stream |-> [SendStatus(s, "NetStream.Publish.BadName")
                         EXCEPT !.pc = "status"],
          named |-> ns,
          fx |-> <<"rejected", "NetStream.Publish.BadName">>]
    ELSE LET s1 == [s EXCEPT !.out = Append(@, "StreamBegin")]
             r == DoStatus(s1, ns, c)
         IN IF written
            THEN [r EXCEPT !.fx = <<"authorized", "StreamBegin">> \o @]
            ELSE [stream |-> [s1 EXCEPT !.pc = "begin"], named |-> ns,
                  fx |-> <<"authorized", "StreamBegin">>]

\* A removePublisher that leaves the publisher in place.
RemovePublisherKeeps(ns, c) == ns

\* SubscriberStream.removePublisher: the argument is not looked at.
RemovePublisher(ns, c) == [ns EXCEPT !.publisher = 0]

\* BaseStream.setTimestamp
SetTimestamp(s, time, relative) ==
    [s EXCEPT !.timestamp = IF relative THEN @ + time ELSE time]

\* A closeStream that does not tell the application.
CloseStreamSilent(s, ns, c) ==
    LET s0 == [s EXCEPT !.closes = @ + 1]
        s1 == [s0 EXCEPT !.published = FALSE, !.timestamp = 0]
    IN IF ~s.bound
       THEN [stream |-> [s0 EXCEPT !.raised = TRUE], named |-> ns,
             fx |-> <<"AttributeError">>]
       ELSE [stream |-> SendStatus(s1, "NetStream.Unpublish.Success"),
             named |-> RemovePublisher(ns, c),
             fx |-> <<"removePublisher", "streamUnpublished", "unpublished",
                      "timestamp", "NetStream.Unpublish.Success">>]

\* Stream.closeStream: the result is the stream, the named stream and what
\* was done, in order.  A stream that never published has no named stream
\* (self.stream is None), and one whose only publish was refused at once has
\* no streamName: the attribute access raises.
CloseStream(s, ns, c) ==
    LET s0 == [s EXCEPT !.closes = @ + 1]
        s1 == [s0 EXCEPT !.published = FALSE, !.timestamp = 0]
        done == <<"removePublisher", "streamUnpublished", "unpublished",
                  "timestamp", "onUnpublish">>
    IN IF ~s.bound
       THEN [stream |-> [s0 EXCEPT !.raised = TRUE], named |-> ns,
             fx |-> <<"AttributeError">>]
       ELSE IF ~s.named
       THEN [stream |-> [s1 EXCEPT !.raised = TRUE],
             named |-> RemovePublisher(ns, c),
             fx |-> done \o <<"AttributeError">>]
       ELSE [stream |-> SendStatus(s1, "NetStream.Unpublish.Success"),
             named |-> RemovePublisher(ns, c),
             fx |-> done \o <<"NetStream.Unpublish.Success">>]

\* The reasons a connection is lost with (twisted.internet.error).
Reasons == {"ConnectionLost", "ConnectionDone"}

\* Stream.connectionLost(reason)
StreamConnectionLost(s, ns, c, reason) ==
    LET s0 == [s EXCEPT !.losses = @ + 1]
    IN IF reason # "ConnectionLost"
       THEN [stream |-> s0, named |-> ns, fx |-> <<>>]
       ELSE IF ~s.bound
       THEN [stream |-> [s0 EXCEPT !.raised = TRUE], named |-> ns,
             fx |-> <<"AttributeError">>]
       ELSE [stream |-> [s0 EXCEPT !.published = FALSE, !.timestamp = 0],
             named |-> RemovePublisher(ns, c),
             fx |-> <<"removePublisher", "streamUnpublished", "unpublished",
                      "timestamp">>]

----------------------------------------------------------------------------
(* Events (rtmpy/protocol/stream.py, class BaseStream and                  *)
(* ExtendedBaseStream; rtmpy/rtmp/event.py).  A stream that publishes      *)
(* receives events from its decoding channels and is asked to write        *)
(* events.  Notify and Invoke are decoded and encoded in a thread of the   *)
(* reactor's pool (threads.deferToThread), so their deferred fires in a    *)
(* later turn of the reactor; every other event is decoded and encoded in  *)
(* the call, and its deferred has fired when the call returns.             *)

\* The channels events arrive on and are written to.
EvtChannelIds == {3, 4}

\* Notify.decode, Notify.encode (inherited by Invoke) against
\* BaseStreamingEvent.decode/encode and ControlEvent.decode/encode.
Threaded(kind) == kind \in {"Notify", "Invoke"}

\* The events a client sends to a publishing stream.
ReceivedKinds == {"AudioData", "VideoData", "Notify", "Invoke"}

\* The events the stream is asked to write: the control event of
\* checkPublishRequest and the Invoke of sendStatus.
WrittenKinds == {"ControlEvent", "Invoke"}

\* The commands of a stream that a client invokes.
Handlers == {"publish", "closeStream"}

\* Attributes of a stream that are not commands.
InternalAttributes == {"writeEvent", "connectionLost", "protocol"}

\* What getattr(self, name) finds.
Attributes == Handlers \cup InternalAttributes

\* The names of the invokes a client sends: a command (publish is invoked
\* in the publishing specifications), the internal attributes and a name
\* the stream does not have.
InvokeNames == {"closeStream", "play"} \cup InternalAttributes

\* The header timestamps of the events received.
HeaderTimestamps == 0..MaxTimestamp

\* interfaces.IEvent.providedBy(res): None, a status object and a Failure
\* are not events.
IEventProvidedBy(res) == res = "Event"

\* The stream of connection 1 after it has published.
PublishingStream ==
    [NewStream EXCEPT !.published = TRUE, !.bound = TRUE, !.named = TRUE,
                      !.requests = 1,
                      !.out = <<"StreamBegin", "NetStream.Publish.Start">>]

NewReceiver ==
    [stream |-> PublishingStream,     \* the Stream
     named |-> SetPublisher(NewNamedStream, 1),  \* Stream.stream
     received |-> <<>>,     \* the events eventReceived was called with
     decoding |-> {},       \* the events whose decoding has not completed
     dispatched |-> <<>>,   \* the events dispatched, in the order of dispatch
     called |-> <<>>]       \* the attributes onInvoke has called

NewSender ==
    [asked |-> <<>>,        \* the events writeEvent was called with
     encoding |-> {},       \* the events whose encoding has not completed
     packets |-> <<>>]      \* the calls of protocol.writePacket, in order

EvtIdle ==
    /\ rcv = NewReceiver
    /\ snd = NewSender

\* The callback of BaseStream.writeEvent: protocol.writePacket with the
\* timestamp the stream has when the encoding completes.
WritePacket(w, i, time) ==
    [w EXCEPT !.encoding = @ \ {i},
              !.packets = Append(@, [id |-> i,
                                     channelId |-> w.asked[i].channelId,
                                     kind |-> w.asked[i].kind,
                                     timestamp |-> time])]

\* BaseStream.writeEvent
WriteEvent(w, kind, name, channelId, time) ==
    LET i == Len(w.asked) + 1
        w1 == [w EXCEPT !.asked = Append(@, [channelId |-> channelId,
                                             kind |-> kind,
                                             name |-> name])]
    IN IF Threaded(kind)
       THEN [w1 EXCEPT !.encoding = @ \cup {i}]
       ELSE WritePacket(w1, i, time)

\* ExtendedBaseStream.onInvoke on the stream s of connection 1: what it
\* called and what it returned.  A status object is what status.error
\* returns; a Failure is an exception raised by the call.
OnInvoke(s, ns, name) ==
    CASE name \notin Attributes ->
           [stream |-> s, named |-> ns, called |-> <<>>, res |-> "Status",
            fx |-> <<>>]
      [] name = "protocol" ->
           [stream |-> s, named |-> ns, called |-> <<>>, res |-> "Failure",
            fx |-> <<>>]
      [] name \in {"writeEvent", "connectionLost"} ->
           [stream |-> s, named |-> ns, called |-> <<name>>,
            res |-> "Failure", fx |-> <<>>]
      [] name = "closeStream" ->
           LET r == CloseStream(s, ns, 1)
           IN [stream |-> r.stream, named |-> r.named,
               called |-> <<name>>, res |-> "None", fx |-> r.fx]

\* BaseStream.dispatchEvent of the decoded event e: the event's dispatch,
\* then the callback that writes the result when it is an event.
DispatchEvent(r, w, e) ==
    LET o == IF e.kind = "Invoke"
             THEN OnInvoke(r.stream, r.named, e.name)
             ELSE [stream |-> r.stream, named |-> r.named, called |-> <<>>,
                   res |-> "None", fx |-> <<>>]
        d == [id |-> e.id, channelId |-> e.channelId, kind |-> e.kind,
              name |-> e.name, time |-> r.stream.timestamp]
        r1 == [r EXCEPT !.stream = o.stream, !.named = o.named,
                        !.decoding = @ \ {e.id},
                        !.dispatched = Append(@, d),
                        !.called = @ \o o.called]
        w1 == IF InSeq("NetStream.Unpublish.Success", o.fx)
              THEN WriteEvent(w, "Invoke", "onStatus", 4, o.stream.timestamp)
              ELSE w
    IN [rcv |-> r1,
        snd |-> IF IEventProvidedBy(o.res)
                THEN WriteEvent(w1, "Invoke", "_result", e.channelId,
                                o.stream.timestamp)
                ELSE w1]

----------------------------------------------------------------------------
(* Subscribers (rtmpy/protocol/stream.py, class SubscriberStream).  A      *)
(* subscriber is an object of the application with the methods the named   *)
(* stream calls; what a subscriber does when it is called is its own:      *)
(* it returns, it raises, or it unsubscribes itself and returns.           *)

Subscribers == {1, 2, 3}

Behaviours == {"ok", "raise", "leave"}

\* The payloads of audio and video data.
Payloads == {<<1>>, <<2, 3>>}

\* SubscriberStream.__init__ with its list of subscribers.
NewSubscriberStream == [subscribers |-> <<>>, publisher |-> 0]

\* What is delivered when nothing is.
NoData == [attr |-> "", data |-> <<>>, time |-> 0]

NoCall ==
    [op |-> "none",         \* the method called
     arg |-> 0,             \* the subscriber or publisher it was called with
     call |-> NoData,       \* what it had to deliver to the subscribers
     behave |-> [s \in Subscribers |-> "ok"],  \* what the subscribers did
     raised |-> FALSE,      \* the call ended with an exception
     delivered |-> <<>>,    \* the calls made on subscribers, in order
     published |-> FALSE]   \* Stream.published of the publisher

SubIdle ==
    /\ sstream = NewSubscriberStream
    /\ note = NoCall

\* list.remove(x): the list without the first x.
RECURSIVE ListRemove(_, _)
ListRemove(q, x) ==
    IF q = <<>> THEN <<>>
    ELSE IF Head(q) = x THEN Tail(q)
    ELSE <<Head(q)>> \o ListRemove(Tail(q), x)

\* An addSubscriber that does not look for the subscriber in the list.
AddSubscriberAgain(ns, s) ==
    [named |-> [ns EXCEPT !.subscribers = Append(@, s)], raised |-> FALSE]

\* SubscriberStream.addSubscriber
AddSubscriber(ns, s) ==
    IF InSeq(s, ns.subscribers)
    THEN [named |-> ns, raised |-> TRUE]
    ELSE [named |-> [ns EXCEPT !.subscribers = Append(@, s)],
          raised |-> FALSE]

\* SubscriberStream.removeSubscriber; list.remove raises when the
\* subscriber is not in the list.
RemoveSubscriber(ns, s) ==
    IF ~InSeq(s, ns.subscribers)
    THEN [named |-> ns, raised |-> TRUE]
    ELSE [named |-> [ns EXCEPT !.subscribers = ListRemove(@, s)],
          raised |-> FALSE]

\* SubscriberStream._notify from position i of the list on: the loop
\* `for s in self.subscribers` reads the list itself at positions 1, 2, ...
\* until the position is past the end of the list as it is then.  call is
\* what is delivered; behave is what each subscriber does when called.
RECURSIVE Notify(_, _, _, _, _)
Notify(ns, i, call, behave, done) ==
    IF i > Len(ns.subscribers)
    THEN [named |-> ns, delivered |-> done, raised |-> FALSE]
    ELSE LET s == ns.subscribers[i]
             d == Append(done, [sub |-> s] @@ call)
         IN CASE behave[s] = "raise" ->
                   [named |-> ns, delivered |-> d, raised |-> TRUE]
              [] behave[s] = "leave" ->
                   Notify(RemoveSubscriber(ns, s).named, i + 1, call,
                          behave, d)
              [] OTHER -> Notify(ns, i + 1, call, behave, d)

\* What the subscribers may do during one fan-out of ns; a subscriber that
\* is not in the list is not called and does nothing.
Behaving(ns) ==
    {b \in [Subscribers -> Behaviours] :
        \A s \in Subscribers : ~InSeq(s, ns.subscribers) => b[s] = "ok"}

\* SubscriberStream.setPublisher of a stream with subscribers.
SetPublisherNotify(ns, c, behave) ==
    Notify([ns EXCEPT !.publisher = c], 1,
           [attr |-> "streamPublished", data |-> <<>>, time |-> 0],
           behave, <<>>)

\* SubscriberStream.removePublisher of a stream with subscribers.
RemovePublisherNotify(ns, c, behave) ==
    Notify([ns EXCEPT !.publisher = 0], 1,
           [attr |-> "streamUnpublished", data |-> <<>>, time |-> 0],
           behave, <<>>)

\* SubscriberStream.videoDataReceived, audioDataReceived, onMetaData
StreamDataReceived(ns, attr, data, time, behave) ==
    Notify(ns, 1, [attr |-> attr, data |-> data, time |-> time],
           behave, <<>>)

----------------------------------------------------------------------------
(* Event codec (rtmpy/rtmp/event.py).  An event is a record of its class   *)
(* and its fields.  The byte stream the events read from and write to      *)
(* (rtmpy.util.BufferedByteStream) is the byte buffer of specification 3   *)
(* and 4.A: integers are big-endian, a read past the end fails.            *)

\* TYPE_MAP
TypeMap ==
    (1 :> "FrameSize") @@ (3 :> "BytesRead") @@ (4 :> "ControlEvent")
    @@ (5 :> "DownstreamBandwidth") @@ (6 :> "UpstreamBandwidth")
    @@ (18 :> "Notify") @@ (20 :> "Invoke") @@ (7 :> "AudioData")
    @@ (8 :> "VideoData")

\* The classes whose body is one unsigned long.
ULongClasses == {"FrameSize", "BytesRead", "DownstreamBandwidth"}

StreamingClasses == {"AudioData", "VideoData"}

\* The largest signed integer of n bytes.
MaxSigned(n) == (2 ^ (8 * n - 2) - 1) * 2 + 1

\* read_short, read_long: a big-endian two's complement integer of n bytes
\* after position pos.
ReadSigned(buf, pos, n) ==
    IF buf[pos + 1] >= 128
    THEN (ReadBE([buf EXCEPT ![pos + 1] = @ - 128], pos, n) - MaxSigned(n))
            - 1
    ELSE ReadBE(buf, pos, n)

\* The encode method of the class of e: the bytes written to the buffer.
\* WriteBE of a negative integer gives its two's complement.
ClassEncode(e) ==
    CASE e.class = "FrameSize" -> WriteBE(e.size, 4)
      [] e.class = "BytesRead" -> WriteBE(e.bytes, 4)
      [] e.class = "DownstreamBandwidth" -> WriteBE(e.bandwidth, 4)
      [] e.class = "UpstreamBandwidth" ->
           WriteBE(e.bandwidth, 4) \o WriteBE(e.extra, 1)
      [] e.class = "ControlEvent" ->
           WriteBE(e.type, 2) \o WriteBE(e.value1, 4)
              \o WriteBE(e.value2, 4) \o WriteBE(e.value3, 4)
      [] e.class \in StreamingClasses -> e.data

\* The bytes the decode method of class kls reads: all there are for the
\* streaming events.
ClassSize(kls, body) ==
    CASE kls \in ULongClasses -> 4
      [] kls = "UpstreamBandwidth" -> 5
      [] kls = "ControlEvent" -> 14
      [] kls \in StreamingClasses -> Len(body)

\* The decode method of class kls on a buffer that holds body: the event
\* and the position of the buffer after it, or the failure of a read past
\* the end.
ClassDecode(kls, body) ==
    IF Len(body) < ClassSize(kls, body)
    THEN [error |-> "IOError", pos |-> 0, event |-> [class |-> kls]]
    ELSE [error |-> "", pos |-> ClassSize(kls, body),
          event |->
            CASE kls = "FrameSize" ->
                   [class |-> kls, size |-> ReadBE(body, 0, 4)]
              [] kls = "BytesRead" ->
                   [class |-> kls, bytes |-> ReadBE(body, 0, 4)]
              [] kls = "DownstreamBandwidth" ->
                   [class |-> kls, bandwidth |-> ReadBE(body, 0, 4)]
              [] kls = "UpstreamBandwidth" ->
                   [class |-> kls, bandwidth |-> ReadBE(body, 0, 4),
                    extra |-> ReadBE(body, 4, 1)]
              [] kls = "ControlEvent" ->
                   [class |-> kls, type |-> ReadSigned(body, 0, 2),
                    value1 |-> ReadSigned(body, 2, 4),
                    value2 |-> ReadSigned(body, 6, 4),
                    value3 |-> ReadSigned(body, 10, 4)]
              [] kls \in StreamingClasses ->
                   [class |-> kls, data |-> body]]

\* An encode that numbers audio and video data as RTMP does (8 and 9).
EventEncodeAsRtmp(e) ==
    [datatype |-> CASE e.class = "AudioData" -> 8
                    [] e.class = "VideoData" -> 9
                    [] OTHER -> CHOOSE t \in DOMAIN TypeMap :
                                   TypeMap[t] = e.class,
     body |-> ClassEncode(e)]

\* encode(event): the datatype of the event's class and the encoded body.
EventEncode(e) ==
    [datatype |-> CHOOSE t \in DOMAIN TypeMap : TypeMap[t] = e.class,
     body |-> ClassEncode(e)]

\* A decode that does not look for bytes after the event.
EventDecodeAnyRest(datatype, body) ==
    IF datatype \notin DOMAIN TypeMap
    THEN [error |-> "DecodeError", event |-> [class |-> ""]]
    ELSE LET r == ClassDecode(TypeMap[datatype], body)
         IN [error |-> r.error, event |-> r.event]

\* decode(datatype, body): the event, or the failure the deferred fires
\* with.
EventDecode(datatype, body) ==
    IF datatype \notin DOMAIN TypeMap
    THEN [error |-> "DecodeError", event |-> [class |-> ""]]
    ELSE LET r == ClassDecode(TypeMap[datatype], body)
         IN IF r.error # ""
            THEN [error |-> r.error, event |-> r.event]
            ELSE IF r.pos # Len(body)
            THEN [error |-> "TrailingDataError", event |-> r.event]
            ELSE [error |-> "", event |-> r.event]

\* get_type_class(datatype): the exception it raises, if any.
GetTypeClass(datatype) ==
    IF datatype \in DOMAIN TypeMap THEN "" ELSE "UnknownEventType"

NoResult ==
    [stage |-> "new",       \* what has been done with emsg
     datatype |-> 0,        \* the datatype encode returned
     body |-> <<>>,         \* the body encode returned
     event |-> [class |-> ""],  \* the event decode returned
     error |-> "",          \* the exception raised or fired
     timestamp |-> 0,       \* BaseStream.timestamp
     dispatched |-> <<>>,   \* the events dispatched to the stream
     raised |-> FALSE,      \* dispatchEvent was called with None and raised
     closed |-> FALSE]      \* the protocol has closed the connection

\* An eventReceived that does not call get_type_class.
StreamEventReceivedUnchecked(o, datatype, body, time, ret) ==
    LET o1 == [o EXCEPT !.stage = "received", !.timestamp = @ + time]
        r == EventDecode(datatype, body)
    IN IF r.error # ""
       THEN [o1 EXCEPT !.error = r.error, !.closed = TRUE,
                       !.raised = (ret = "None")]
       ELSE [o1 EXCEPT !.event = r.event,
                       !.dispatched = Append(@, r.event)]

\* BaseStream.eventReceived for a message of a channel whose header has
\* the datatype and the timestamp time.  An exception of get_type_class
\* leaves eventReceived and the decoder's job, and the protocol closes the
\* connection; a failure of the decoding goes to protocol.logAndDisconnect,
\* and when that returns None (ret) the deferred goes on to dispatchEvent
\* with None, which raises before it dispatches anything.
StreamEventReceived(o, datatype, body, time, ret) ==
    LET o1 == [o EXCEPT !.stage = "received", !.timestamp = @ + time]
        r == EventDecode(datatype, body)
    IN IF GetTypeClass(datatype) # ""
       THEN [o1 EXCEPT !.error = GetTypeClass(datatype), !.closed = TRUE]
       ELSE IF r.error # ""
       THEN [o1 EXCEPT !.error = r.error, !.closed = TRUE,
                       !.raised = (ret = "None")]
       ELSE [o1 EXCEPT !.event = r.event,
                       !.dispatched = Append(@, r.event)]

CodIdle ==
    /\ emsg = [op |-> "none"]
    /\ eout = NoResult

\* No FRAME_SIZE event has been received: old is the frame size before
\* the latest change.
FsIdle == fsz = [changes |-> 0, old |-> 0]

----------------------------------------------------------------------------
(* Valid chunk streams: what a conforming peer sends.                      *)

ChannelIds == {3, 4}

\* The body of the message of length len sent on channel cid.
Body(cid, len) == [i \in 1..len |-> 16 * cid + i]

\* The header of that message: video data on stream 1.
MsgHeader(cid, len) == Header(cid, cid, len, 8, WriteLE(1, 4))

\* The chunks of a message: a full header and the first frameSize bytes,
\* then a one-byte continuation header before each further frame.
RECURSIVE ChunkList(_, _, _, _)
ChunkList(h, body, fs, first) ==
    IF body = <<>> THEN <<>>
    ELSE LET n == Min(fs, Len(body))
         IN <<EncodeHeader(IF first THEN 0 ELSE 3, h) \o Take(body, n)>>
            \o ChunkList(h, Drop(body, n), fs, FALSE)

RECURSIVE Flatten(_)
Flatten(ss) == IF ss = <<>> THEN <<>> ELSE Head(ss) \o Flatten(Tail(ss))

\* Two chunk lists taken in turn, starting with the first.
RECURSIVE Alternate(_, _)
Alternate(a, b) ==
    IF a = <<>> THEN b
    ELSE IF b = <<>> THEN a
    ELSE <<Head(a), Head(b)>> \o Alternate(Tail(a), Tail(b))

Msg(cid, len) == [header |-> MsgHeader(cid, len), body |-> Body(cid, len)]

MsgChunks(m, fs) == ChunkList(m.header, m.body, fs, TRUE)

\* A stream and the messages it carries in completion order.
OneMessage(m, fs) ==
    [bytes |-> Flatten(MsgChunks(m, fs)), msgs |-> <<m>>]

Sequential(m1, m2, fs) ==
    [bytes |-> Flatten(MsgChunks(m1, fs) \o MsgChunks(m2, fs)),
     msgs |-> <<m1, m2>>]

Interleaved(m1, m2, fs) ==
    [bytes |-> Flatten(Alternate(MsgChunks(m1, fs), MsgChunks(m2, fs))),
     msgs |-> IF Len(MsgChunks(m1, fs)) <= Len(MsgChunks(m2, fs))
              THEN <<m1, m2>> ELSE <<m2, m1>>]

Streams(fs) ==
    {OneMessage(Msg(c, n), fs) : c \in ChannelIds, n \in 1..MaxBody}
    \cup {Sequential(Msg(3, n1), Msg(3, n2), fs) :
            n1 \in 1..MaxBody, n2 \in 1..MaxBody}
    \cup {Interleaved(Msg(3, n1), Msg(4, n2), fs) :
            n1 \in 1..MaxBody, n2 \in 1..MaxBody}

----------------------------------------------------------------------------
(* The decoder fed by a transport that fragments the stream.               *)

DecInit ==
    \E fs \in 1..MaxFrameSize :
      \E s \in Streams(fs) :
        /\ dec = NewDecoder(fs)
        /\ wire = s.bytes
        /\ expect = s.msgs
        /\ sent = 0
        /\ decA = NewDecoder(fs)
        /\ decB = NewDecoder(fs)
        /\ wireA = <<>>
        /\ wireB = <<>>
        /\ sentA = 0
        /\ sentB = 0
        /\ EncIdle
        /\ HsIdle
        /\ PubIdle
        /\ EvtIdle
        /\ SubIdle
        /\ CodIdle
        /\ FsIdle

\* The transport delivers the next k bytes.  The decoder does not start
\* itself: its owner hands the bytes to Decoder.dataReceived and resumes the
\* job with BaseCodec.start (specification 4.D).
Deliver ==
    /\ sent < Len(wire)
    /\ \E k \in (1..Min(MaxFragment, Len(wire) - sent))
                \cup {Len(wire) - sent} :
         /\ dec' = StartJob(DataReceived(dec,
                                         SubSeq(wire, sent + 1, sent + k)))
         /\ sent' = sent + k
    /\ UNCHANGED <<decA, decB, wire, wireA, wireB, sentA, sentB, expect>>
    /\ UNCHANGED nonDecVars

\* The job calls Decoder.decode.
Tick ==
    /\ dec.running
    /\ dec' = Decode(dec)
    /\ UNCHANGED <<decA, decB, wire, wireA, wireB, sent, sentA, sentB, expect>>
    /\ UNCHANGED nonDecVars

DecNext == Deliver \/ Tick

SpecDec == DecInit /\ [][DecNext]_vars

----------------------------------------------------------------------------
(* Three decoders: one is given the concatenation of two valid chunk       *)
(* streams, the other two are given one of the streams each.  The three    *)
(* are independent and run one after the other.                            *)

ConcatInit ==
    \E fs \in 1..MaxFrameSize :
      \E a \in Streams(fs), b \in Streams(fs) :
        /\ dec = NewDecoder(fs)
        /\ decA = NewDecoder(fs)
        /\ decB = NewDecoder(fs)
        /\ wire = a.bytes \o b.bytes
        /\ wireA = a.bytes
        /\ wireB = b.bytes
        /\ expect = a.msgs \o b.msgs
        /\ sent = 0
        /\ sentA = 0
        /\ sentB = 0
        /\ EncIdle
        /\ HsIdle
        /\ PubIdle
        /\ EvtIdle
        /\ SubIdle
        /\ CodIdle
        /\ FsIdle

CatDone == sent = Len(wire) /\ ~dec.running

ADone == sentA = Len(wireA) /\ ~decA.running

BDone == sentB = Len(wireB) /\ ~decB.running

\* The whole stream is handed to the decoder, which is then started.
FeedCat ==
    /\ sent = 0
    /\ dec' = StartJob(DataReceived(dec, wire))
    /\ sent' = Len(wire)
    /\ UNCHANGED <<decA, decB, wire, wireA, wireB, sentA, sentB, expect>>
    /\ UNCHANGED nonDecVars

FeedA ==
    /\ CatDone
    /\ sentA = 0
    /\ decA' = StartJob(DataReceived(decA, wireA))
    /\ sentA' = Len(wireA)
    /\ UNCHANGED <<dec, decB, wire, wireA, wireB, sent, sentB, expect>>
    /\ UNCHANGED nonDecVars

TickA ==
    /\ decA.running
    /\ decA' = Decode(decA)
    /\ UNCHANGED <<dec, decB, wire, wireA, wireB, sent, sentA, sentB, expect>>
    /\ UNCHANGED nonDecVars

FeedB ==
    /\ ADone
    /\ sentB = 0
    /\ decB' = StartJob(DataReceived(decB, wireB))
    /\ sentB' = Len(wireB)
    /\ UNCHANGED <<dec, decA, wire, wireA, wireB, sent, sentA, expect>>
    /\ UNCHANGED nonDecVars

TickB ==
    /\ decB.running
    /\ decB' = Decode(decB)
    /\ UNCHANGED <<dec, decA, wire, wireA, wireB, sent, sentA, sentB, expect>>
    /\ UNCHANGED nonDecVars

ConcatNext == FeedCat \/ Tick \/ FeedA \/ TickA \/ FeedB \/ TickB

SpecConcat == ConcatInit /\ [][ConcatNext]_vars

----------------------------------------------------------------------------
(* The encoder driven by producers that write messages to its channels.    *)

DecIdle ==
    /\ dec = NewDecoder(1)
    /\ decA = NewDecoder(1)
    /\ decB = NewDecoder(1)
    /\ wire = <<>>
    /\ wireA = <<>>
    /\ wireB = <<>>
    /\ expect = <<>>
    /\ sent = 0
    /\ sentA = 0
    /\ sentB = 0

EncInit ==
    \E fs \in 1..MaxFrameSize :
        /\ enc = NewEncoder(fs)
        /\ ctx = [c \in EncChannelIds |-> NewContext]
        /\ sched = <<>>
        /\ echan = [c \in EncChannelIds |-> NewChannel]
        /\ prod = [c \in EncChannelIds |-> [started |-> 0, open |-> FALSE]]
        /\ consumer = <<>>
        /\ lastEnc = NoTick
        /\ DecIdle
        /\ HsIdle
        /\ PubIdle
        /\ EvtIdle
        /\ SubIdle
        /\ CodIdle
        /\ FsIdle

\* The number of messages the producers have begun.
Started == prod[3].started + prod[4].started

\* A producer begins a message on channel c: it gives the channel the
\* absolute header of the message.
ProducerSetHeader ==
    \E c \in EncChannelIds, len \in 1..MaxBody :
        /\ ~prod[c].open
        /\ Started < MaxMessages
        /\ echan' = [echan EXCEPT ![c] = ChannelSetHeader(@,
                        Header(c, prod[c].started + 1, len, 8, WriteLE(1, 4)))]
        /\ prod' = [prod EXCEPT ![c] = [started |-> @.started + 1,
                                        open |-> TRUE]]
        /\ UNCHANGED <<enc, ctx, sched, consumer, lastEnc>>
        /\ UNCHANGED nonEncVars

\* The producer writes the next n bytes of the message to the channel.  A
\* channel whose body is complete hands it to its consumer, the context.
ProducerWrite ==
    \E c \in EncChannelIds :
        /\ prod[c].open
        /\ \E n \in 1..BodyRemaining(echan[c]) :
             LET got == Len(echan[c].body)
                 data == SubSeq(Body(c, echan[c].header.bodyLength),
                                got + 1, got + n)
                 w == ChannelWrite(echan[c], data, enc.frameSize)
                 cw == ContextWrite(ctx[c], sched, c, w.done[1].body)
             IN /\ echan' = [echan EXCEPT ![c] = w.ch]
                /\ IF w.done = <<>>
                   THEN UNCHANGED <<ctx, sched, prod>>
                   ELSE /\ ctx' = [ctx EXCEPT ![c] = cw.ctx]
                        /\ sched' = cw.sched
                        /\ prod' = [prod EXCEPT ![c].open = FALSE]
        /\ UNCHANGED <<enc, consumer, lastEnc>>
        /\ UNCHANGED nonEncVars

\* BaseCodec.start on the encoder.
EncStart ==
    /\ ~enc.running
    /\ ~enc.failed
    /\ enc' = [enc EXCEPT !.running = TRUE]
    /\ UNCHANGED <<ctx, sched, echan, prod, consumer, lastEnc>>
    /\ UNCHANGED nonEncVars

\* Encoder.encode: one iteration of the job.
Encode ==
    /\ enc.running
    /\ IF sched = <<>>
       THEN /\ enc' = [enc EXCEPT !.running = FALSE]
            /\ lastEnc' = [NoTick EXCEPT !.result = "pause"]
            /\ UNCHANGED <<ctx, sched, consumer>>
       ELSE LET c == Head(sched)
                w == WriteFrame(ctx[c], echan[c], enc.frameSize)
            IN /\ enc' = [enc EXCEPT !.currentContext = c,
                                     !.running = ~w.error,
                                     !.failed = w.error]
               /\ ctx' = [ctx EXCEPT ![c] = w.ctx]
               /\ sched' = IF w.deactivate
                           THEN Deactivate(Rotate(sched), c)
                           ELSE Rotate(sched)
               /\ consumer' = consumer \o w.frame
               /\ lastEnc' = [channel |-> c,
                              result |-> IF w.error THEN "error"
                                         ELSE IF w.frame = <<>> THEN "defer"
                                         ELSE "frame",
                              wanted |-> w.wanted,
                              had |-> Len(ctx[c].buffer)]
    /\ UNCHANGED <<echan, prod>>
    /\ UNCHANGED nonEncVars

EncNext == ProducerSetHeader \/ ProducerWrite \/ EncStart \/ Encode

SpecEnc == EncInit /\ [][EncNext]_vars

\* The encoder whose job keeps being called: the looping call runs
\* Encoder.encode for as long as the job is running, and the owner resumes a
\* paused job with BaseCodec.start.  The producers are under no obligation.
SpecEncLive ==
    /\ EncInit
    /\ [][EncNext]_vars
    /\ WF_vars(Encode)
    /\ WF_vars(EncStart)

----------------------------------------------------------------------------
(* The client fed by a transport that fragments what the peer sends.       *)

HsInit ==
    \E p \in Peers :
        /\ cli = NewClient
        /\ log = <<>>
        /\ peer = [kind |-> p, wire |-> <<>>]
        /\ psent = 0
        /\ ndeliv = 0
        /\ DecIdle
        /\ EncIdle
        /\ PubIdle
        /\ EvtIdle
        /\ SubIdle
        /\ CodIdle
        /\ FsIdle

\* RTMPClientProtocol.connectionMade; the peer answers what it was sent.
ConnectionMade ==
    /\ cli.state = "NEW"
    /\ \E my \in Handshakes :
         /\ cli' = [cli EXCEPT !.state = "HANDSHAKE", !.my_handshake = my]
         /\ log' = <<Written(<<HEADER_BYTE>>), Written(my)>>
         /\ peer' = [peer EXCEPT !.wire = PeerWire(peer.kind, my)]
    /\ UNCHANGED <<psent, ndeliv>>
    /\ UNCHANGED nonHsVars

\* The transport delivers the next k bytes of the peer to dataReceived.
\* Bytes on their way when the connection was closed still arrive.
HsDeliver ==
    /\ cli.state # "NEW"
    /\ ~cli.raised
    /\ ndeliv < MaxDeliveries
    /\ psent < Len(peer.wire)
    /\ \E k \in {1, HANDSHAKE_LENGTH, HANDSHAKE_LENGTH + 1,
                 HANDSHAKE_LENGTH * 2, Len(peer.wire) - psent} :
         /\ k <= Len(peer.wire) - psent
         /\ LET r == ClientDataReceived(cli, SubSeq(peer.wire, psent + 1,
                                                    psent + k))
            IN /\ cli' = r.cli
               /\ log' = log \o r.log
         /\ psent' = psent + k
    /\ ndeliv' = ndeliv + 1
    /\ UNCHANGED peer
    /\ UNCHANGED nonHsVars

HsNext == ConnectionMade \/ HsDeliver

SpecHs == HsInit /\ [][HsNext]_vars

----------------------------------------------------------------------------
(* Connections that ask to publish the same named stream.                  *)

PubInit ==
    /\ PubIdle
    /\ DecIdle
    /\ EncIdle
    /\ HsIdle
    /\ EvtIdle
    /\ SubIdle
    /\ CodIdle
    /\ FsIdle

\* Stream.publish up to the point where it returns: the test of the named
\* stream's publisher, and the call of onPublish, which answers at once
\* (answered) with res or later.
Publish ==
    \E c \in Conns, answered \in BOOLEAN, res \in BOOLEAN,
       written \in BOOLEAN :
        LET s == [pub[c] EXCEPT !.requests = @ + 1, !.bound = TRUE]
            s1 == [s EXCEPT !.named = TRUE]
            r == CheckPublishRequest(s1, nstream, c, res, written)
        IN /\ pub[c].pc = "idle"
           /\ pub[c].losses = 0
           /\ Requests < MaxRequests
           /\ IF nstream.publisher # 0
              THEN /\ pub' = [pub EXCEPT ![c] =
                                [SendStatus(s, "NetStream.Publish.BadName")
                                    EXCEPT !.pc = "status"]]
                   /\ fx' = <<"NetStream.Publish.BadName">>
                   /\ UNCHANGED nstream
              ELSE IF ~answered
              THEN /\ pub' = [pub EXCEPT ![c] = [s1 EXCEPT !.pc = "authorize"]]
                   /\ fx' = <<"onPublish">>
                   /\ UNCHANGED nstream
              ELSE /\ pub' = [pub EXCEPT ![c] = r.stream]
                   /\ nstream' = r.named
                   /\ fx' = <<"onPublish">> \o r.fx
           /\ UNCHANGED nonPubVars

\* The deferred of onPublish fires with res: checkPublishRequest runs.
Authorized ==
    \E c \in Conns, res \in BOOLEAN, written \in BOOLEAN :
        LET r == CheckPublishRequest(pub[c], nstream, c, res, written)
        IN /\ pub[c].pc = "authorize"
           /\ pub' = [pub EXCEPT ![c] = r.stream]
           /\ nstream' = r.named
           /\ fx' = r.fx
           /\ UNCHANGED nonPubVars

\* The deferred of the stream-begin write fires: doStatus runs.
StreamBegun ==
    \E c \in Conns :
        LET r == DoStatus(pub[c], nstream, c)
        IN /\ pub[c].pc = "begin"
           /\ pub' = [pub EXCEPT ![c] = r.stream]
           /\ nstream' = r.named
           /\ fx' = r.fx
           /\ UNCHANGED nonPubVars

\* The deferred of the status fires (it has been encoded and written): the
\* deferred that Stream.publish returned fires, the call is complete.
PublishCompleted ==
    \E c \in Conns :
        /\ pub[c].pc = "status"
        /\ pub' = [pub EXCEPT ![c].pc = "idle"]
        /\ fx' = <<"completed">>
        /\ UNCHANGED nstream
        /\ UNCHANGED nonPubVars

PubNext == Publish \/ Authorized \/ StreamBegun \/ PublishCompleted

SpecPub == PubInit /\ [][PubNext]_vars

----------------------------------------------------------------------------
(* The life of the publishers: connections publish, receive audio data,    *)
(* close their stream and are lost.                                        *)

\* The client invokes closeStream.
CloseStreamCall ==
    \E c \in Conns :
        LET r == CloseStream(pub[c], nstream, c)
        IN /\ pub[c].losses = 0
           /\ Closes < MaxCloses
           /\ pub' = [pub EXCEPT ![c] = r.stream]
           /\ nstream' = r.named
           /\ fx' = r.fx
           /\ UNCHANGED nonPubVars

\* The protocol tells the stream that its connection is lost.
ConnectionLostCall ==
    \E c \in Conns, reason \in Reasons :
        LET r == StreamConnectionLost(pub[c], nstream, c, reason)
        IN /\ Losses < MaxLosses
           /\ pub' = [pub EXCEPT ![c] = r.stream]
           /\ nstream' = r.named
           /\ fx' = r.fx
           /\ UNCHANGED nonPubVars

\* BaseStream.eventReceived for a message of audio data whose header has
\* the timestamp time: the stream takes the timestamp and the event, whose
\* decoding is immediate, is dispatched to onAudioData.
AudioReceived ==
    \E c \in Conns, time \in 1..MaxTimestamp :
        /\ pub[c].losses = 0
        /\ pub[c].published
        /\ pub[c].timestamp + time <= MaxTimestamp
        /\ pub' = [pub EXCEPT ![c] = SetTimestamp(@, time, TRUE)]
        /\ fx' = <<"setTimestamp", "audioDataReceived">>
        /\ UNCHANGED nstream
        /\ UNCHANGED nonPubVars

LifeNext ==
    \/ Publish
    \/ Authorized
    \/ StreamBegun
    \/ PublishCompleted
    \/ CloseStreamCall
    \/ ConnectionLostCall
    \/ AudioReceived

SpecLife == PubInit /\ [][LifeNext]_vars

----------------------------------------------------------------------------
(* A publishing stream that receives events and is asked to write events.  *)

EvtInit ==
    /\ EvtIdle
    /\ DecIdle
    /\ EncIdle
    /\ HsIdle
    /\ PubIdle
    /\ SubIdle
    /\ CodIdle
    /\ FsIdle

\* The events received and the events the stream was asked to write.
Events == Len(rcv.received) + Len(snd.asked)

\* BaseStream.eventReceived of an event with the header timestamp time on
\* channel channelId: the timestamp of the stream, then the decoding, which
\* completes in the call unless it runs in a thread, then the dispatch.
EventReceived ==
    \E channelId \in EvtChannelIds, kind \in ReceivedKinds,
       name \in InvokeNames, time \in HeaderTimestamps :
       LET e == [id |-> Len(rcv.received) + 1, channelId |-> channelId,
                 kind |-> kind,
                 name |-> CASE kind = "Invoke" -> name
                            [] kind = "Notify" -> "@setDataFrame"
                            [] OTHER -> "",
                 timestamp |-> time]
           r1 == [rcv EXCEPT !.stream = SetTimestamp(@, time, TRUE),
                             !.received = Append(@, e)]
           d == DispatchEvent(r1, snd, e)
       IN /\ Events < MaxEvents
          /\ kind # "Invoke" => name = "play"
          /\ IF Threaded(kind)
             THEN /\ rcv' = [r1 EXCEPT !.decoding = @ \cup {e.id}]
                  /\ snd' = snd
             ELSE /\ rcv' = d.rcv
                  /\ snd' = d.snd
          /\ UNCHANGED nonEvtVars

\* The decoding of a Notify or an Invoke completes, and the event is
\* dispatched.
DecodeCompleted ==
    \E i \in rcv.decoding :
       LET d == DispatchEvent(rcv, snd, rcv.received[i])
       IN /\ rcv' = d.rcv
          /\ snd' = d.snd
          /\ UNCHANGED nonEvtVars

\* A call of BaseStream.writeEvent.
WriteEventCall ==
    \E channelId \in EvtChannelIds, kind \in WrittenKinds :
       /\ Events < MaxEvents
       /\ snd' = WriteEvent(snd, kind, IF kind = "Invoke" THEN "onStatus"
                                                          ELSE "",
                            channelId, rcv.stream.timestamp)
       /\ UNCHANGED <<rcv, nonEvtVars>>

\* The encoding of an Invoke completes, and the packet is written.
EncodeCompleted ==
    \E i \in snd.encoding :
       /\ snd' = WritePacket(snd, i, rcv.stream.timestamp)
       /\ UNCHANGED <<rcv, nonEvtVars>>

EvtNext == EventReceived \/ DecodeCompleted \/ WriteEventCall
              \/ EncodeCompleted

SpecEvt == EvtInit /\ [][EvtNext]_vars

----------------------------------------------------------------------------
(* A named stream with subscribers: subscribers come and go, connection 1  *)
(* publishes, sends data and closes its stream.                            *)

SubInit ==
    /\ SubIdle
    /\ DecIdle
    /\ EncIdle
    /\ HsIdle
    /\ PubIdle
    /\ EvtIdle
    /\ CodIdle
    /\ FsIdle

\* A call of SubscriberStream.addSubscriber.
AddSubscriberCall ==
    \E s \in Subscribers :
       LET r == AddSubscriber(sstream, s)
       IN /\ sstream' = r.named
          /\ note' = [NoCall EXCEPT !.op = "addSubscriber", !.arg = s,
                                    !.raised = r.raised,
                                    !.published = note.published]
          /\ UNCHANGED nonSubVars

\* A call of SubscriberStream.removeSubscriber.
RemoveSubscriberCall ==
    \E s \in Subscribers :
       LET r == RemoveSubscriber(sstream, s)
       IN /\ sstream' = r.named
          /\ note' = [NoCall EXCEPT !.op = "removeSubscriber", !.arg = s,
                                    !.raised = r.raised,
                                    !.published = note.published]
          /\ UNCHANGED nonSubVars

\* doStatus in Stream.publish of connection 1: the status, setPublisher,
\* and published = True when setPublisher has returned.
SetPublisherCall ==
    \E behave \in Behaving(sstream) :
       LET r == SetPublisherNotify(sstream, 1, behave)
       IN /\ sstream.publisher = 0
          /\ sstream' = r.named
          /\ note' = [NoCall EXCEPT !.op = "setPublisher", !.arg = 1,
                                    !.call = [NoData EXCEPT
                                                !.attr = "streamPublished"],
                                    !.behave = behave,
                                    !.raised = r.raised,
                                    !.delivered = r.delivered,
                                    !.published = ~r.raised]
          /\ UNCHANGED nonSubVars

\* Stream.closeStream of connection 1: removePublisher, and
\* published = False when removePublisher has returned.
RemovePublisherCall ==
    \E behave \in Behaving(sstream) :
       LET r == RemovePublisherNotify(sstream, 1, behave)
       IN /\ sstream.publisher = 1
          /\ sstream' = r.named
          /\ note' = [NoCall EXCEPT !.op = "removePublisher", !.arg = 1,
                                    !.call = [NoData EXCEPT
                                                !.attr = "streamUnpublished"],
                                    !.behave = behave,
                                    !.raised = r.raised,
                                    !.delivered = r.delivered,
                                    !.published = r.raised /\ note.published]
          /\ UNCHANGED nonSubVars

\* ExtendedBaseStream.onAudioData, onVideoData and Stream.onMetaData of
\* connection 1 with the payload data; time is the stream's timestamp
\* (metadata carries none).
DataCall ==
    \E attr \in {"audioDataReceived", "videoDataReceived", "onMetaData"},
       data \in Payloads, time \in HeaderTimestamps,
       behave \in Behaving(sstream) :
       LET r == StreamDataReceived(sstream, attr, data, time, behave)
       IN /\ attr = "onMetaData" => time = 0
          /\ sstream' = r.named
          /\ note' = [NoCall EXCEPT !.op = "data", !.arg = 1,
                                    !.call = [attr |-> attr, data |-> data,
                                              time |-> time],
                                    !.behave = behave,
                                    !.raised = r.raised,
                                    !.delivered = r.delivered,
                                    !.published = note.published]
          /\ UNCHANGED nonSubVars

SubNext == AddSubscriberCall \/ RemoveSubscriberCall \/ SetPublisherCall
              \/ RemovePublisherCall \/ DataCall

SpecSub == SubInit /\ [][SubNext]_vars

----------------------------------------------------------------------------
(* The event codec: an event is encoded and the result decoded; a stream   *)
(* receives the completed message of a channel.                            *)

\* Values of the unsigned fields, and of the signed fields of a control
\* event (the type is a short).
SampleValues == {0, 1, 255, 256, 65536, 2147483647}

SampleSigned == {-1, 0, 1, -2147483647, 2147483647}

SampleTypes == {0, 6, -1, 32767}

\* Events whose fields are set and in range.
SampleEvents ==
    {[class |-> "FrameSize", size |-> v] : v \in SampleValues}
    \cup {[class |-> "BytesRead", bytes |-> v] : v \in SampleValues}
    \cup {[class |-> "DownstreamBandwidth", bandwidth |-> v] :
             v \in SampleValues}
    \cup {[class |-> "UpstreamBandwidth", bandwidth |-> v, extra |-> x] :
             v \in SampleValues, x \in {0, 2, 255}}
    \cup {[class |-> "ControlEvent", type |-> ty, value1 |-> v1,
           value2 |-> v2, value3 |-> -1] :
             ty \in SampleTypes, v1 \in SampleSigned, v2 \in SampleSigned}
    \cup {[class |-> "ControlEvent", type |-> 0, value1 |-> 1,
           value2 |-> -1, value3 |-> v3] : v3 \in SampleSigned}
    \cup {[class |-> k, data |-> d] : k \in StreamingClasses, d \in Payloads}

\* Datatypes of messages: those of the events above and some that no event
\* has.
SampleDatatypes == {1, 3, 4, 5, 6, 7, 8} \cup {0, 2, 9, 22}

\* Bodies of messages: an encoded event, as it is, without its last byte,
\* or with up to MaxTrailing bytes after it.
SampleBodies ==
    {ClassEncode(e) : e \in {s \in SampleEvents : s.class \in StreamingClasses
                                \/ s.class = "UpstreamBandwidth"
                                \/ (s.class = "FrameSize" /\ s.size <= 1)
                                \/ (s.class = "ControlEvent" /\ s.type = 0
                                      /\ s.value1 = 1 /\ s.value2 = -1)}}

Trailing == UNION {[1..n -> {0}] : n \in 0..MaxTrailing}

CodInit ==
    /\ \/ \E e \in SampleEvents : emsg = [op |-> "roundtrip", event |-> e]
       \/ \E t \in SampleDatatypes, b \in SampleBodies, x \in Trailing,
             cut \in BOOLEAN, time \in HeaderTimestamps,
             ret \in {"None", "Failure"} :
             /\ cut => x = <<>>
             /\ emsg = [op |-> "receive", datatype |-> t,
                        body |-> IF cut THEN Take(b, Len(b) - 1) ELSE b \o x,
                        time |-> time, ret |-> ret]
    /\ eout = NoResult
    /\ DecIdle
    /\ EncIdle
    /\ HsIdle
    /\ PubIdle
    /\ EvtIdle
    /\ SubIdle
    /\ FsIdle

\* encode(event)
EncodeCall ==
    /\ emsg.op = "roundtrip"
    /\ eout.stage = "new"
    /\ LET r == EventEncode(emsg.event)
       IN eout' = [eout EXCEPT !.stage = "encoded", !.datatype = r.datatype,
                               !.body = r.body]
    /\ UNCHANGED <<emsg, nonCodVars>>

\* decode(datatype, body) of what encode returned
DecodeCall ==
    /\ emsg.op = "roundtrip"
    /\ eout.stage = "encoded"
    /\ LET r == EventDecode(eout.datatype, eout.body)
       IN eout' = [eout EXCEPT !.stage = "decoded", !.event = r.event,
                               !.error = r.error]
    /\ UNCHANGED <<emsg, nonCodVars>>

\* BaseStream.eventReceived of the message
MessageReceived ==
    /\ emsg.op = "receive"
    /\ eout.stage = "new"
    /\ eout' = StreamEventReceived(eout, emsg.datatype, emsg.body,
                                   emsg.time, emsg.ret)
    /\ UNCHANGED <<emsg, nonCodVars>>

CodNext == EncodeCall \/ DecodeCall \/ MessageReceived

SpecCod == CodInit /\ [][CodNext]_vars

----------------------------------------------------------------------------
(* The frame size changes while the decoder decodes a stream, or while     *)
(* the encoder sends the messages of its producers.  The handler of the    *)
(* FRAME_SIZE event (onFrameSize, at the connection level) sets            *)
(* manager.frameSize, which both codecs read.                              *)

FsInit == DecInit \/ EncInit

\* manager.frameSize, as the codec that runs sees it.
FrameSizeNow == IF wire # <<>> THEN dec.frameSize ELSE enc.frameSize

\* FrameSize.dispatch and the onFrameSize of the connection; the frame
\* size changes once in a run, at any moment between two ticks.
FrameSizeChanged ==
    \E size \in 1..MaxFrameSize :
       /\ fsz.changes = 0
       /\ size # FrameSizeNow
       /\ fsz' = [changes |-> fsz.changes + 1, old |-> FrameSizeNow]
       /\ dec' = [dec EXCEPT !.frameSize = size]
       /\ enc' = [enc EXCEPT !.frameSize = size]
       /\ UNCHANGED <<decA, decB, wire, wireA, wireB, sent, sentA, sentB,
                      expect>>
       /\ UNCHANGED <<ctx, sched, echan, prod, consumer, lastEnc>>
       /\ UNCHANGED <<hsVars, pubVars, evtVars, subVars, codVars>>

\* The producers begin no more than MaxFsMessages messages.
FsEncNext ==
    /\ wire = <<>>
    /\ EncNext
    /\ prod'[3].started + prod'[4].started <= MaxFsMessages

FsNext == (wire # <<>> /\ DecNext) \/ FsEncNext \/ FrameSizeChanged

SpecFs == FsInit /\ [][FsNext]_vars

----------------------------------------------------------------------------
(* Claims about the decoder.                                               *)

\* C1: in every decoder tick, the number of bytes drained from the byte
\* buffer into the current channel is at most min(bytes remaining in the
\* buffer, channel.bodyRemaining, frameSize - (bytes already received of
\* the current message mod frameSize)): a drain that continues a partly
\* received frame stops at that frame's boundary.
C1_DrainStopsAtFrameBoundary ==
    \A i \in 1..Len(dec.drains) :
        LET dr == dec.drains[i]
        IN dr.n <= Min3(dr.remaining, dr.bodyRemaining,
                        dec.frameSize - (dr.received % dec.frameSize))


\* The buffer holds nothing but the beginning of a chunk header.
IncompleteHeader(buf) == buf # <<>> /\ ~DecodeHeader(buf, 0).ok

\* C3: the decoder pauses only when it cannot make progress: whenever it is
\* paused its buffer is empty or holds only an incomplete chunk header, and
\* once the whole stream has been appended and the decoder has come to
\* rest, every complete chunk has been drained into its channel, so that
\* the messages sent have been assembled.
C3_PausedOnlyWithoutProgress ==
    ~dec.running =>
        /\ dec.buffer = <<>> \/ IncompleteHeader(dec.buffer)
        /\ sent = Len(wire) => dec.out = expect

\* The bytes the latest tick moved into channel bodies.
RECURSIVE Drained(_)
Drained(drains) ==
    IF drains = <<>> THEN 0 ELSE Head(drains).n + Drained(Tail(drains))

\* C4: a tick that attempts to read a chunk header and finds only a prefix
\* of it pauses the decoder and leaves the prefix in the buffer: the tick
\* removes from the buffer exactly the bytes it drained into the pinned
\* channel before the attempt, and when it drained none the channels and
\* the pinned channel are as they were.
C4_ShortHeaderKeepsBytes ==
    [][(dec.running /\ dec'.tick = "shortHeader" /\ dec'.buffer # <<>>
          /\ sent' = sent) =>
        /\ ~dec'.running
        /\ dec'.buffer = Drop(dec.buffer, Drained(dec'.drains))
        /\ IncompleteHeader(dec'.buffer)
        /\ dec'.drains = <<>> =>
              /\ dec'.channels = dec.channels
              /\ dec'.currentChannel = dec.currentChannel
              /\ dec'.out = dec.out]_vars

\* A tick completed a pinned frame and then met a header of which only
\* several bytes had arrived.
C4_Witness ==
    /\ dec.tick = "shortHeader"
    /\ ~dec.running
    /\ Len(dec.buffer) >= 2
    /\ Len(dec.drains) = 1

\* C2: the decoder, given the concatenation of two valid chunk streams,
\* yields the same sequence of complete messages (headers and bodies, in
\* completion order) as the outputs of decoding each stream independently,
\* one after the other.
C2_ConcatenationDecodesAsParts ==
    (CatDone /\ ADone /\ BDone) => dec.out = decA.out \o decB.out

\* The three decoders have finished and delivered the messages sent.
C2_Witness ==
    /\ CatDone /\ ADone /\ BDone
    /\ decA.out # <<>>
    /\ decB.out # <<>>
    /\ dec.out = expect
    /\ Len(expect) >= 3

----------------------------------------------------------------------------
(* Claims about the encoder.                                               *)

\* The encoder is about to take channel c, whose context holds bytes.
TakesPending(c) ==
    /\ enc.running
    /\ sched # <<>>
    /\ c = Head(sched)
    /\ ctx[c].buffer # <<>>

\* C5: every encoder tick on a channel that still has body bytes to send
\* emits exactly one frame, for the channel the scheduler returned, whose
\* body has min(channel.bodyRemaining, frameSize) bytes; the channels so
\* alternate until each body is exhausted.
C5_OneFramePerTick ==
    [][\A c \in EncChannelIds :
         (Encode /\ TakesPending(c)) =>
            /\ Len(consumer') = Len(consumer) + 1
            /\ consumer'[Len(consumer')].channel = c
            /\ Len(consumer'[Len(consumer')].data)
                 = Min(BodyRemaining(echan[c]), enc.frameSize)]_vars

\* C6: a channel is active exactly when its context has at least one byte
\* pending, in the context's flag and in the scheduler alike; so a tick that
\* empties the context buffer has deactivated the channel when it ends.
C6_ActiveIffPending ==
    \A c \in EncChannelIds :
        /\ ctx[c].active <=> ctx[c].buffer # <<>>
        /\ InSeq(c, sched) <=> ctx[c].buffer # <<>>

\* The encoder is about to take channel c, whose context holds fewer bytes
\* than the frame it will ask for.
TakesShort(c) ==
    /\ enc.running
    /\ sched # <<>>
    /\ c = Head(sched)
    /\ Len(ctx[c].buffer) < Min(BodyRemaining(echan[c]), enc.frameSize)

----------------------------------------------------------------------------
(* Claims about the client handshake.                                      *)

\* The length of the peer's part of the handshake.
PeerPart == 1 + HANDSHAKE_LENGTH + HANDSHAKE_LENGTH

\* The echo block of what the peer sends.
EchoSent == SubSeq(peer.wire, HANDSHAKE_LENGTH + 2, PeerPart)

Succeeded ==
    \E i \in 1..Len(log) : log[i] = Dispatched("HANDSHAKE_SUCCESS")

Failed ==
    \E i \in 1..Len(log) : log[i] = Dispatched("HANDSHAKE_FAILURE")

\* C8: once connected the client has sent 0x03 and then its 1536-byte
\* my_handshake; while fewer than 1 + 1536 + 1536 bytes, with a correct
\* leading byte, have arrived it has written nothing more and is in
\* HANDSHAKE; success is dispatched only when the peer sent 0x03, its
\* payload and an exact echo of my_handshake, after exactly the peer's
\* payload was written back; and it is dispatched as soon as those bytes
\* have arrived, however the transport split them.
C8_HandshakeSuccessPath ==
    cli.state # "NEW" =>
        /\ Len(cli.my_handshake) = HANDSHAKE_LENGTH
        /\ SubSeq(log, 1, 2) = <<Written(<<HEADER_BYTE>>),
                                 Written(cli.my_handshake)>>
        /\ (psent < PeerPart /\ (psent >= 1 => peer.wire[1] = HEADER_BYTE))
              => (cli.state = "HANDSHAKE" /\ Len(log) = 2)
        /\ Succeeded =>
              /\ psent >= PeerPart
              /\ peer.wire[1] = HEADER_BYTE
              /\ EchoSent = cli.my_handshake
              /\ SubSeq(log, 3, Len(log))
                   = <<Written(SubSeq(peer.wire, 2, HANDSHAKE_LENGTH + 1)),
                       Dispatched("HANDSHAKE_SUCCESS")>>
        /\ (psent >= PeerPart /\ peer.wire[1] = HEADER_BYTE
              /\ EchoSent = cli.my_handshake)
              => (Succeeded /\ cli.state = "STREAM")

\* The handshake succeeded on bytes that came in three or more pieces.
C8_Witness ==
    /\ Succeeded
    /\ cli.state = "STREAM"
    /\ ndeliv >= 3
    /\ Len(log) = 4

\* The peer has sent a wrong leading byte, or a whole handshake whose
\* second block is not my_handshake.
BadPeer ==
    /\ psent >= 1
    /\ \/ peer.wire[1] # HEADER_BYTE
       \/ psent >= PeerPart /\ EchoSent # cli.my_handshake

----------------------------------------------------------------------------
(* Claims about publishing.                                                *)

Received(c, code) == \E i \in 1..Len(pub[c].out) : pub[c].out[i] = code

\* C10: whatever the interleaving of the publish requests of different
\* connections for the same name, and of the answers of onPublish and of
\* the stream-begin writes, at most one connection is in the published
\* state and at most one has received NetStream.Publish.Start.
C10_AtMostOnePublisher ==
    /\ Cardinality({c \in Conns : pub[c].published}) <= 1
    /\ Cardinality({c \in Conns :
                      Received(c, "NetStream.Publish.Start")}) <= 1


\* Connection c has made the call in this step.
Requested(c) == pub'[c].requests = pub[c].requests + 1

Closed(c) == pub'[c].closes = pub[c].closes + 1

Lost(c) == pub'[c].losses = pub[c].losses + 1

\* C11: closeStream or connectionLost on a connection that is not the
\* publisher of the named stream, while another connection is, leaves the
\* named stream's publisher as it is and notifies no subscriber of an
\* unpublish.
C11_OnlyPublisherUnbinds ==
    [][\A c \in Conns :
         ((Closed(c) \/ Lost(c)) /\ nstream.publisher \notin {0, c}) =>
            /\ nstream' = nstream
            /\ ~InSeq("streamUnpublished", fx')]_vars

\* C12: a publish made while the named stream has a publisher is answered
\* with NetStream.Publish.BadName and changes neither the publisher nor the
\* caller's published flag; closeStream by the publisher frees the slot; and
\* a publish made while the slot is free, once authorized and begun, is
\* answered with NetStream.Publish.Start and makes the caller the publisher.
C12_BadNameThenFreeAfterClose ==
    [][\A c \in Conns :
         /\ (Requested(c) /\ nstream.publisher # 0) =>
               /\ pub'[c].out = Append(pub[c].out, "NetStream.Publish.BadName")
               /\ nstream' = nstream
               /\ pub'[c].published = pub[c].published
         /\ (Closed(c) /\ nstream.publisher = c) =>
               nstream'.publisher = 0
         /\ (Requested(c) /\ nstream.publisher = 0) =>
               /\ InSeq("NetStream.Publish.BadName", fx')
                    => InSeq("rejected", fx')
               /\ pub'[c].pc \in {"authorize", "begin", "status"}
         /\ (((Requested(c) /\ nstream.publisher = 0)
                  \/ pub[c].pc = "authorize")
               /\ InSeq("authorized", fx') /\ pub'[c] # pub[c]) =>
               /\ pub'[c].pc \in {"begin", "status"}
               /\ pub'[c].pc = "status" =>
                     /\ pub'[c].out = pub[c].out \o <<"StreamBegin",
                                          "NetStream.Publish.Start">>
                     /\ nstream'.publisher = c
         /\ (pub[c].pc = "begin" /\ pub'[c].pc = "status") =>
               /\ pub'[c].out = Append(pub[c].out, "NetStream.Publish.Start")
               /\ nstream'.publisher = c]_vars

\* The publisher closed its stream and the next publish, by the other
\* connection, was answered with Start.
C12_Witness ==
    /\ pub[1].out = <<"StreamBegin", "NetStream.Publish.Start",
                      "NetStream.Unpublish.Success">>
    /\ pub[2].out = <<"StreamBegin", "NetStream.Publish.Start">>
    /\ nstream.publisher = 2
    /\ ~pub[1].published
    /\ pub[2].published

\* C13: when onPublish rejects a publish, NetStream.Publish.BadName is sent
\* and no stream-begin event is written, the named stream's publisher and
\* the caller's published flag stay as they were, nothing is raised and the
\* call is left waiting only for the status to be written.
C13_RejectedPublish ==
    [][\A c \in Conns :
         (InSeq("rejected", fx') /\ pub'[c] # pub[c]) =>
            /\ pub'[c].out = Append(pub[c].out, "NetStream.Publish.BadName")
            /\ nstream' = nstream
            /\ pub'[c].published = pub[c].published
            /\ pub'[c].raised = pub[c].raised
            /\ pub'[c].pc = "status"]_vars

\* A publish on a free slot was rejected.
C13_Witness ==
    \E c \in Conns :
        /\ InSeq("rejected", fx)
        /\ pub[c].out = <<"NetStream.Publish.BadName">>
        /\ pub[c].pc = "status"
        /\ ~pub[c].published
        /\ nstream.publisher = 0


\* Where x is in q (x is in q).
Pos(x, q) == CHOOSE i \in 1..Len(q) : q[i] = x

\* How many of the first n entries of q are x.
Count(x, q, n) == Cardinality({j \in 1..n : q[j] = x})

\* C14: on an authorized publish the stream-begin event is written, then
\* NetStream.Publish.Start is sent, then the caller is set as the publisher
\* of the named stream; the publish call completes only afterwards, and
\* every Start sent to a client has a stream-begin of its own before it.
C14_BeginThenStartThenPublisher ==
    [][\A c \in Conns :
         /\ (InSeq("NetStream.Publish.Start", fx') /\ pub'[c] # pub[c]) =>
               /\ InSeq("setPublisher", fx')
               /\ Pos("NetStream.Publish.Start", fx') < Pos("setPublisher", fx')
               /\ InSeq("StreamBegin", fx') =>
                     Pos("StreamBegin", fx') < Pos("NetStream.Publish.Start", fx')
               /\ \/ pub'[c].out = Append(pub[c].out, "NetStream.Publish.Start")
                  \/ pub'[c].out = pub[c].out \o <<"StreamBegin",
                                         "NetStream.Publish.Start">>
               /\ nstream'.publisher = c
               /\ pub'[c].published
               /\ pub'[c].pc = "status"
         /\ (pub'[c].pc = "idle" /\ pub[c].pc # "idle") => pub[c].pc = "status"
         /\ \A i \in 1..Len(pub'[c].out) :
               pub'[c].out[i] = "NetStream.Publish.Start" =>
                  Count("StreamBegin", pub'[c].out, i)
                    >= Count("NetStream.Publish.Start", pub'[c].out, i)]_vars

\* The stream-begin write completed later, and doStatus then ran.
C14_Witness ==
    \E c \in Conns :
        /\ fx = <<"NetStream.Publish.Start", "setPublisher",
                  "streamPublished", "published">>
        /\ pub[c].out = <<"StreamBegin", "NetStream.Publish.Start">>
        /\ nstream.publisher = c
        /\ pub[c].pc = "status"

C16_LostPublisherIsCleared ==
    [][\A c \in Conns :
         (Lost(c) /\ nstream.publisher = c) =>
            /\ nstream'.publisher = 0
            /\ pub'[c].timestamp = 0
            /\ InSeq("onUnpublish", fx')]_vars

\* C17: connectionLost on a stream that was already lost or closed changes
\* neither the stream nor the named stream, raises nothing and notifies no
\* subscriber of an unpublish.
C17_ConnectionLostIdempotent ==
    [][\A c \in Conns :
         (Lost(c) /\ (pub[c].losses >= 1 \/ pub[c].closes >= 1)) =>
            /\ nstream' = nstream
            /\ pub'[c] = [pub[c] EXCEPT !.losses = @ + 1]
            /\ ~InSeq("streamUnpublished", fx')]_vars

----------------------------------------------------------------------------
(* Claims about events.                                                    *)

\* The event the latest call of eventReceived was made with.
LastReceived == rcv'.received[Len(rcv'.received)]

\* The latest dispatch.
LastDispatched == rcv'.dispatched[Len(rcv'.dispatched)]

\* C18: after each event received, the stream's timestamp is the timestamp
\* of the event's header (set, not accumulated), and audio and video data
\* are passed on with that timestamp.
C18_TimestampIsHeaderTimestamp ==
    [][Len(rcv'.received) = Len(rcv.received) + 1 =>
         /\ rcv'.stream.timestamp = LastReceived.timestamp
         /\ LastReceived.kind \in {"AudioData", "VideoData"} =>
               /\ LastDispatched.id = LastReceived.id
               /\ LastDispatched.time = LastReceived.timestamp]_vars

\* C19: on each channel, the events received are dispatched in the order
\* they arrived in and the packets are written in the order writeEvent was
\* called in, also when a Notify or Invoke is followed by an event that is
\* decoded or encoded at once.
C19_ChannelOrderPreserved ==
    /\ \A i, j \in 1..Len(rcv.dispatched) :
          (i < j /\ rcv.dispatched[i].channelId = rcv.dispatched[j].channelId)
             => rcv.dispatched[i].id < rcv.dispatched[j].id
    /\ \A i, j \in 1..Len(snd.packets) :
          (i < j /\ snd.packets[i].channelId = snd.packets[j].channelId)
             => snd.packets[i].id < snd.packets[j].id

\* C20: an invoke whose name is not a command of the stream, the names of
\* internal attributes included, calls nothing on the stream and is
\* answered with an invoke of _error that carries NetStream.Failed.
C20_UnknownInvokeIsRefused ==
    [][(/\ Len(rcv'.dispatched) = Len(rcv.dispatched) + 1
        /\ LastDispatched.kind = "Invoke"
        /\ LastDispatched.name \notin Handlers) =>
          /\ rcv'.called = rcv.called
          /\ rcv'.stream = rcv.stream
          /\ snd'.asked = Append(snd.asked,
                                 [channelId |-> LastDispatched.channelId,
                                  kind |-> "Invoke", name |-> "_error"])]_vars

----------------------------------------------------------------------------
(* Claims about subscribers.                                               *)

NoDuplicates(q) == \A i, j \in 1..Len(q) : i # j => q[i] # q[j]

\* What a fan-out to the list q delivers when every subscriber of q is
\* called once, in the order of q.
ToAll(q, call) == [i \in 1..Len(q) |-> [sub |-> q[i]] @@ call]

\* The latest call was a fan-out.
FannedOut == note'.op \in {"setPublisher", "removePublisher", "data"}

\* C21: the list of subscribers has no duplicates; addSubscriber appends a
\* subscriber that is not in the list and removeSubscriber takes out one
\* that is, the others keeping their order; adding a subscriber that is in
\* the list and removing one that is not fail and leave the list unchanged.
C21_SubscriberList ==
    [][/\ NoDuplicates(sstream'.subscribers)
       /\ note'.op = "addSubscriber" =>
            IF InSeq(note'.arg, sstream.subscribers)
            THEN note'.raised /\ sstream' = sstream
            ELSE /\ ~note'.raised
                 /\ sstream'.subscribers =
                       Append(sstream.subscribers, note'.arg)
       /\ note'.op = "removeSubscriber" =>
            IF ~InSeq(note'.arg, sstream.subscribers)
            THEN note'.raised /\ sstream' = sstream
            ELSE /\ ~note'.raised
                 /\ sstream'.subscribers =
                       SelectSeq(sstream.subscribers,
                                 LAMBDA x : x # note'.arg)]_vars

\* A subscriber that is in a list of three was added again.
C21_Witness ==
    /\ note.op = "addSubscriber"
    /\ note.raised
    /\ Len(sstream.subscribers) = 3
    /\ sstream.subscribers[1] = note.arg

\* C22: every audio or video payload is delivered to every subscriber of
\* the named stream exactly once, in the order the subscribers were added,
\* with the payload and the stream's timestamp.
C22_DataToEverySubscriber ==
    [][(note'.op = "data" /\ note'.call.attr # "onMetaData") =>
          note'.delivered = ToAll(sstream.subscribers, note'.call)]_vars

\* C23: when a subscriber raises while it is notified, it stays
\* subscribed, every other subscriber is notified, and the call of the
\* publisher completes: setPublisher returns and the stream is published.
C23_FanOutIsBestEffort ==
    [][(FannedOut /\ \A s \in Subscribers : note'.behave[s] # "leave") =>
          /\ sstream'.subscribers = sstream.subscribers
          /\ note'.delivered = ToAll(sstream.subscribers, note'.call)
          /\ ~note'.raised
          /\ note'.op = "setPublisher" => note'.published]_vars

\* C29: when subscribers unsubscribe themselves from inside a
\* notification, every subscriber that was subscribed when the fan-out
\* started is still notified exactly once.
C29_LeavingDuringFanOut ==
    [][(FannedOut /\ \A s \in Subscribers : note'.behave[s] # "raise") =>
          note'.delivered = ToAll(sstream.subscribers, note'.call)]_vars

----------------------------------------------------------------------------
(* Claims about the event codec.                                           *)

\* The number of bytes of the body of an event of a fixed-size class.
FixedSize ==
    (1 :> 4) @@ (3 :> 4) @@ (5 :> 4) @@ (6 :> 5) @@ (4 :> 14)

\* C24: encode of a FrameSize, BytesRead, ControlEvent,
\* DownstreamBandwidth, UpstreamBandwidth, AudioData or VideoData event
\* gives the datatype that TYPE_MAP has for the event's class, and decode
\* of that datatype and the body gives an event of the same class with the
\* same fields.
C24_EncodeDecodeRoundTrip ==
    (emsg.op = "roundtrip" /\ eout.stage # "new") =>
       /\ eout.datatype \in DOMAIN TypeMap
       /\ TypeMap[eout.datatype] = emsg.event.class
       /\ eout.stage = "decoded" =>
             /\ eout.error = ""
             /\ eout.event = emsg.event

\* A control event with negative values has been encoded and decoded.
C24_Witness ==
    /\ emsg.op = "roundtrip"
    /\ eout.stage = "decoded"
    /\ emsg.event.class = "ControlEvent"
    /\ emsg.event.value2 = -1
    /\ emsg.event.value1 = -2147483647
    /\ Len(eout.body) = 14
    /\ eout.event.value1 = -2147483647

\* C25: a message is decoded to an event only when the decoder of the
\* event's class reads the whole body; a body of a fixed-size class with
\* bytes after the event fails with TrailingData, and nothing is
\* dispatched to the stream when the decoding fails.
C25_TrailingDataFails ==
    (emsg.op = "receive" /\ eout.stage = "received"
       /\ emsg.datatype \in DOMAIN TypeMap) =>
       /\ (emsg.datatype \in DOMAIN FixedSize
             /\ Len(emsg.body) > FixedSize[emsg.datatype]) =>
                eout.error = "TrailingDataError"
       /\ eout.error # "" => eout.dispatched = <<>>
       /\ eout.error = "" =>
             /\ eout.dispatched = <<eout.event>>
             /\ ClassEncode(eout.event) = emsg.body

\* A control event followed by one more byte was received.
C25_Witness ==
    /\ emsg.op = "receive"
    /\ eout.stage = "received"
    /\ emsg.datatype = 4
    /\ Len(emsg.body) = 15
    /\ eout.error = "TrailingDataError"
    /\ eout.closed
    /\ eout.dispatched = <<>>

----------------------------------------------------------------------------
(* Claims about the frame size.                                            *)

\* A step of the decoder's job: the buffer does not grow and the frame
\* size stays.
DecoderTicked ==
    /\ dec' # dec
    /\ dec'.frameSize = dec.frameSize
    /\ Len(dec'.buffer) <= Len(dec.buffer)

\* C27: after a change of the frame size every drain of the decoder and
\* every frame of the encoder is bounded by the new frame size, from the
\* very next one on: each takes the smaller of what is there, what the
\* message still needs and the frame size of the moment.
C27_NewFrameSizeAtOnce ==
    [][/\ DecoderTicked =>
            \A i \in 1..Len(dec'.drains) :
               /\ dec'.drains[i].n <= dec.frameSize
               /\ dec'.drains[i].n = Min3(dec'.drains[i].remaining,
                                          dec'.drains[i].bodyRemaining,
                                          dec.frameSize)
       /\ (lastEnc' # lastEnc /\ lastEnc'.result = "frame") =>
            /\ lastEnc'.wanted <= enc.frameSize
            /\ lastEnc'.wanted =
                  Min(BodyRemaining(echan[lastEnc'.channel]), enc.frameSize)
            /\ Len(consumer') <= Len(consumer) + 12 + enc.frameSize]_vars

\* The frame size became smaller, and the next drain took no more than
\* the new size although the buffer and the message had more.
C27_Witness ==
    /\ fsz.changes = 1
    /\ fsz.old > dec.frameSize
    /\ wire # <<>>
    /\ \E i \in 1..Len(dec.drains) :
          /\ dec.drains[i].n = dec.frameSize
          /\ dec.drains[i].remaining >= fsz.old
          /\ dec.drains[i].bodyRemaining >= fsz.old

\* The frames the consumer has been given for channel c.
FramesOf(c) == SelectSeq(consumer, LAMBDA f : f.channel = c)

\* The tick that this step is wrote a frame for channel c.
WroteFrame(c) ==
    /\ Encode
    /\ lastEnc'.result = "frame"
    /\ lastEnc'.channel = c

\* C28: the first frame written for a channel carries the channel's full
\* absolute header and every later frame the difference between the header
\* the context kept from the last frame written and the channel's current
\* header; the context's last header becomes the channel's current header
\* exactly on the ticks that write a frame for the channel, and no other
\* step (a deferring tick, a tick that raises, a pause, the producer)
\* changes it.
C28_RelativeToLastWritten ==
    [][\A c \in EncChannelIds :
         /\ (ctx[c].header = NoHeader) <=> (FramesOf(c) = <<>>)
         /\ IF WroteFrame(c)
            THEN LET f == consumer'[Len(consumer')]
                     h == IF FramesOf(c) = <<>> THEN echan[c].header
                          ELSE DiffHeaders(ctx[c].header, echan[c].header)
                 IN /\ Len(consumer') = Len(consumer) + 1
                    /\ f.channel = c
                    /\ f.header = h
                    /\ FramesOf(c) = <<>> => ~f.header.relative
                    /\ f.bytes = EncodeHeader(FormatOf(h), h) \o f.data
                    /\ ctx'[c].header = echan[c].header
            ELSE ctx'[c].header = ctx[c].header]_vars

\* A later frame of a channel has been written whose header differs from
\* the one last written, after a tick on that channel had deferred.
C28_Witness ==
    /\ lastEnc.result = "frame"
    /\ Len(FramesOf(lastEnc.channel)) >= 2
    /\ consumer[Len(consumer)].channel = lastEnc.channel
    /\ consumer[Len(consumer)].header.relative
    /\ FormatOf(consumer[Len(consumer)].header) < 3

\* The job runs Decoder.decode until the decoder pauses itself.
RECURSIVE RunToRest(_)
RunToRest(d) == IF d.running THEN RunToRest(Decode(d)) ELSE d

\* What a fresh decoder delivers when the whole stream is handed to it in
\* one dataReceived call and the job then runs until it pauses.
WholeAtOnce(fs, bytes) ==
    RunToRest(StartJob(DataReceived(NewDecoder(fs), bytes))).out

\* C30: the messages the decoder has delivered once the whole stream has
\* arrived and the decoder has come to rest are those it delivers when the
\* stream is handed to it in one piece, however the transport split the
\* stream into fragments and wherever the ticks fell between them.
C30_FragmentsDoNotMatter ==
    (sent = Len(wire) /\ ~dec.running) =>
        dec.out = WholeAtOnce(dec.frameSize, wire)

\* The body bytes of a sequence of frames, in the order they were written.
RECURSIVE DataOf(_)
DataOf(frames) ==
    IF frames = <<>> THEN <<>> ELSE Head(frames).data \o DataOf(Tail(frames))

\* Every byte ChannelContext.write has been given for channel c, in order,
\* if none was lost or repeated: those the consumer has, then those pending.
Accounted(c) == DataOf(FramesOf(c)) \o ctx[c].buffer

\* No step loses, repeats or reorders a byte of a channel: the bytes written
\* followed by the bytes pending only ever grow at the end.
NothingLostOrRepeated ==
    [][\A c \in EncChannelIds :
         /\ Len(Accounted(c)') >= Len(Accounted(c))
         /\ SubSeq(Accounted(c)', 1, Len(Accounted(c))) = Accounted(c)
         /\ Encode => Accounted(c)' = Accounted(c)]_vars

\* C31: no byte appended to a channel's context with ChannelContext.write
\* is lost, repeated or reordered on its way to the consumer, and, the
\* encoder being ticked for ever, the bytes pending in a context are
\* eventually all written: the encoder does not come to rest with bytes left
\* in a context.
C31_NothingLostOrStranded ==
    /\ NothingLostOrRepeated
    /\ \A c \in EncChannelIds :
          (ctx[c].buffer # <<>>) ~> (ctx[c].buffer = <<>>)

====
